---- MODULE Spec2Model ----
(***************************************************************************)
(* Provider configuration engine of the cline CLI: the encryptor, the      *)
(* field mapper and validator, the configuration store, the provider       *)
(* wizard / fast setup and the live model fetcher.                         *)
(*                                                                         *)
(* Go strings are TLA+ strings, Go maps are functions whose DOMAIN is the  *)
(* key set, Go errors are strings ("" is the nil error).                   *)
(***************************************************************************)
EXTENDS Integers, Sequences, FiniteSets, TLC

VARIABLES
    \* ---- field mapper / validator harness --------------------------------
    mPc, mField, mValue, mConfig, mErr,
    \* ---- encryptor harness -----------------------------------------------
    cPc, cKey, cIn, cOut,
    \* ---- configuration store ---------------------------------------------
    cmOrigin,    \* "none": cm.config is nil; "fresh": it descends from
                 \* createDefaultConfig; "file": it was parsed from the file
    cmConfig,    \* *cm.config
    encKey,      \* key of cm.encryptor
    disk,        \* the configuration file: [exists, content]
    savePc,      \* position of the Save in progress: "idle" or "writing"
    saveBuf,     \* data handed to the latest os.WriteFile
    saveArg,     \* the config argument of the Save that made saveBuf
    lastOp,      \* the latest call and the error it returned
    \* ---- model fetcher ---------------------------------------------------
    fDef,        \* id of the definition given to FetchModelsForProvider
    fApiKey,     \* its apiKey argument
    fBaseURL,    \* its baseURL argument
    fPc,         \* the caller: "start", "select" (in fetchWithContext), "returned"
    fGo,         \* the goroutine running fetcher.FetchModels: "none",
                 \* "running" (HTTP exchange in flight), "done"
    fChan,       \* resultChan, a channel of capacity 1
    fDeadline,   \* ctx.Done() is closed
    fSeen,       \* what fetchWithContext returned: [models, err]
    fRet,        \* what FetchModelsForProvider returned: [models, err]
    \* ---- provider wizard / fast setup ------------------------------------
    wPc,         \* the running command: "none"; "menu" (wizard loop);
                 \* "addfailed" (addProvider returned an error);
                 \* "wizsave" (saveAndExit in Save); "fastadded", "fastsave"
                 \* (FastSetup before and in Save); "fastfailed" (FastSetup
                 \* returning an error)
    wOps,        \* provider additions made so far
    wPlaced,     \* the latest addition: [by, id], by "add" or "FastSetup"
    wErr,        \* the error FastSetup is returning while wPc = "fastfailed"
    \* ---- key rotation ----------------------------------------------------
    keyFile,     \* the key of ~/.../.keys/encryption.key; 0 when no such file
    backupFile,  \* the key of encryption.key.backup; 0 when no such file
    rPc,         \* RotateEncryptionKey: "start", "loaded", "backedup",
                 \* "removed", "newkey", "saving", "done" (returned nil),
                 \* "failed" (returned an error), "crashed" (process killed)
    rConfig,     \* its local config, the configuration Load returned
    rErr,        \* the error it returned
    \* ---- provider registry ------------------------------------------------
    gPc,         \* "start", "returned"
    gId,         \* the provider id the caller asks about
    gOp,         \* the ProviderRegistry method called
    gArg,        \* its other arguments: [capability, config]
    gRet,        \* what it returned: [val, err]
    \* ---- the wizard's test action ----------------------------------------
    tPc,         \* "menu", "tested"
    tReport,     \* what testProviders printed: for each configured provider
                 \* the error after "Failed:", "" for "Configuration valid"
    \* ---- the paginated model list ----------------------------------------
    lPc,         \* showModelList: "prompt", "selected" (returned nil),
                 \* "failed" (returned an error)
    lModels,     \* modelMap
    lOptions,    \* modelOptions
    lPages,      \* pages
    lPage,       \* currentPage
    lInput,      \* the latest answer to the prompt
    lSel         \* providerConfig.ModelID as set by the selection

mapVars    == <<mPc, mField, mValue, mConfig, mErr>>
cryptoVars == <<cPc, cKey, cIn, cOut>>
storeVars  == <<cmOrigin, cmConfig, encKey, disk, savePc, saveBuf, saveArg, lastOp>>
fetchVars  == <<fDef, fApiKey, fBaseURL, fPc, fGo, fChan, fDeadline, fSeen, fRet>>
wizardVars == <<wPc, wOps, wPlaced, wErr>>
rotateVars == <<keyFile, backupFile, rPc, rConfig, rErr>>
registryVars == <<gPc, gId, gOp, gArg, gRet>>
testVars   == <<tPc, tReport>>
listVars   == <<lPc, lModels, lOptions, lPages, lPage, lInput, lSel>>
vars       == <<mapVars, cryptoVars, storeVars, fetchVars, wizardVars, rotateVars,
                registryVars, testVars, listVars>>

(***************************************************************************)
(* Bounds of the model.                                                    *)
(***************************************************************************)
NumValues == 2      \* distinct non-empty strings a user can type
NumKeys   == 3      \* distinct 256-bit keys the key generator can draw
NumNonces == 2      \* distinct nonces the random source can draw

Values      == {""} \cup {"sk-" \o ToString(i) : i \in 1..NumValues}
NonEmptyValues == Values \ {""}
Keys        == 1..NumKeys
NonceIds    == 1..NumNonces

(***************************************************************************)
(* Go maps.                                                                *)
(***************************************************************************)
EmptyMap == [k \in {} |-> ""]

\* m[k] of a Go map[string]string: the zero value "" when k is absent
MapGet(m, k) == IF k \in DOMAIN m THEN m[k] ELSE ""

\* m[k] = v
MapSet(m, k, v) == [x \in (DOMAIN m) \cup {k} |-> IF x = k THEN v ELSE m[x]]

\* delete(m, k)
MapDelete(m, k) == [x \in (DOMAIN m) \ {k} |-> m[x]]

(***************************************************************************)
(* config.ProviderConfig                                                   *)
(***************************************************************************)
NewProviderConfig(id, name) ==
    [ID |-> id, Name |-> name, APIKey |-> "", BaseURL |-> "",
     ModelID |-> "", ExtraConfig |-> EmptyMap]

(***************************************************************************)
(* setup.MapFieldToConfig                                                  *)
(***************************************************************************)
ProviderApiKeyFields ==
    {"anthropicApiKey", "cerebrasApiKey", "deepSeekApiKey", "xaiApiKey",
     "groqApiKey", "geminiApiKey", "openAiApiKey", "openAiNativeApiKey",
     "openRouterApiKey", "qwenApiKey", "doubaoApiKey", "mistralApiKey",
     "fireworksApiKey", "huggingFaceApiKey", "moonshotApiKey",
     "sambanovaApiKey", "sapAiCoreApiKey", "basetenApiKey",
     "nebiusApiKey", "askSageApiKey", "togetherApiKey",
     "liteLLMApiKey", "difyApiKey", "zaiApiKey", "requestyApiKey"}

MapperBaseUrlFields ==
    {"ollamaBaseUrl", "lmStudioBaseUrl", "openAiBaseUrl",
     "liteLLMBaseUrl", "fireworksBaseUrl"}

SetExtra_FreshMap(pc, key, value) ==
    [pc EXCEPT !.ExtraConfig = MapSet(EmptyMap, key, value)]

SetExtra(pc, key, value) ==
    [pc EXCEPT !.ExtraConfig = MapSet(pc.ExtraConfig, key, value)]

MapFieldToConfig(fieldName, value, pc) ==
    CASE fieldName = "apiKey"                -> [pc EXCEPT !.APIKey = value]
      [] fieldName \in ProviderApiKeyFields  -> [pc EXCEPT !.APIKey = value]
      [] fieldName = "awsAccessKey"          -> SetExtra(pc, "aws_access_key", value)
      [] fieldName = "awsSecretKey"          -> SetExtra(pc, "aws_secret_key", value)
      [] fieldName = "awsSessionToken"       -> SetExtra(pc, "aws_session_token", value)
      [] fieldName = "awsRegion"             -> SetExtra(pc, "aws_region", value)
      [] fieldName = "vertexProjectId"       -> SetExtra(pc, "vertex_project_id", value)
      [] fieldName = "vertexRegion"          -> SetExtra(pc, "vertex_region", value)
      [] fieldName \in MapperBaseUrlFields   -> [pc EXCEPT !.BaseURL = value]
      [] OTHER                               -> SetExtra(pc, fieldName, value)

(***************************************************************************)
(* setup.ValidateRequiredFields                                            *)
(***************************************************************************)
ValidatorApiKeyFields == {"apiKey"} \cup ProviderApiKeyFields

ValidatorBaseUrlFields == {"ollamaBaseUrl", "lmStudioBaseUrl"}

\* the hasValue computed by the switch for one required field
HasValue(fieldName, pc) ==
    CASE fieldName \in ValidatorApiKeyFields  -> pc.APIKey # ""
      [] fieldName = "awsAccessKey"           -> MapGet(pc.ExtraConfig, "aws_access_key") # ""
      [] fieldName = "awsSecretKey"           -> MapGet(pc.ExtraConfig, "aws_secret_key") # ""
      [] fieldName = "awsRegion"              -> MapGet(pc.ExtraConfig, "aws_region") # ""
      [] fieldName = "vertexProjectId"        -> MapGet(pc.ExtraConfig, "vertex_project_id") # ""
      [] fieldName = "vertexRegion"           -> MapGet(pc.ExtraConfig, "vertex_region") # ""
      [] fieldName \in ValidatorBaseUrlFields -> pc.BaseURL # ""
      [] OTHER -> fieldName \in DOMAIN pc.ExtraConfig /\ pc.ExtraConfig[fieldName] # ""

MissingFieldError(fieldName) ==
    "required field '" \o fieldName \o "' is missing or empty"

RECURSIVE ValidateFrom(_, _, _)
ValidateFrom(pc, requiredFields, i) ==
    IF i > Len(requiredFields) THEN ""
    ELSE IF ~HasValue(requiredFields[i], pc) THEN MissingFieldError(requiredFields[i])
    ELSE ValidateFrom(pc, requiredFields, i + 1)

ValidateRequiredFields(providerID, pc, requiredFields) ==
    ValidateFrom(pc, requiredFields, 1)

(***************************************************************************)
(* config.ConfigEncryptor: AES-256-GCM behind base64.                      *)
(*                                                                         *)
(* A byte string is a sequence of symbolic bytes.  A raw byte carries a    *)
(* number; the output of gcm.Seal for one message (ciphertext and tag) is  *)
(* one symbolic element that remembers the key, the nonce and the          *)
(* plaintext it was sealed from: gcm.Open succeeds exactly on an element   *)
(* sealed under the same key and nonce.                                    *)
(***************************************************************************)
NonceSize == 12

RawByte(n) == [key |-> 0, nonce |-> 0, pt |-> "", raw |-> n]

SealedBlock(key, nonceId, plaintext) ==
    [key |-> key, nonce |-> nonceId, pt |-> plaintext, raw |-> 0]

\* the NonceSize bytes read from rand.Reader
NonceBytes(nonceId) == [i \in 1..NonceSize |-> RawByte(nonceId)]

\* gcm.Seal(dst, nonce, plaintext, nil): appends to dst
GcmSeal(dst, key, nonceId, plaintext) ==
    dst \o <<SealedBlock(key, nonceId, plaintext)>>

\* gcm.Open(nil, nonce, ciphertext, nil)
GcmOpen(key, nonce, ciphertext) ==
    IF /\ Len(ciphertext) = 1
       /\ ciphertext[1].key = key
       /\ ciphertext[1].key # 0
       /\ NonceBytes(ciphertext[1].nonce) = nonce
    THEN [val |-> ciphertext[1].pt, err |-> ""]
    ELSE [val |-> "", err |-> "cipher: message authentication failed"]

\* base64.StdEncoding.EncodeToString: an injective text form of the bytes
EncodeByte(b) ==
    IF b.key = 0 THEN "r" \o ToString(b.raw) \o ";"
    ELSE "S" \o ToString(b.key) \o "," \o ToString(b.nonce) \o "," \o b.pt \o ";"

RECURSIVE EncodeFrom(_, _)
EncodeFrom(bytes, i) ==
    IF i > Len(bytes) THEN "" ELSE EncodeByte(bytes[i]) \o EncodeFrom(bytes, i + 1)

EncodeToString(bytes) == "b64:" \o EncodeFrom(bytes, 1)

\* the byte strings whose encodings can occur in the model
ShortBytes == [i \in 1..(NonceSize - 1) |-> RawByte(7)]
NonceOnlyBytes == NonceBytes(1)
JunkBytes == NonceBytes(1) \o <<RawByte(9)>>
SealedBytes == {GcmSeal(NonceBytes(n), k, n, s) :
                   n \in NonceIds, k \in Keys, s \in NonEmptyValues}
ByteStrings == {ShortBytes, NonceOnlyBytes, JunkBytes} \cup SealedBytes

\* base64.StdEncoding.DecodeString: the inverse of EncodeToString, an error
\* on every string that is not an encoding
DecodeString(str) ==
    IF \E b \in ByteStrings : EncodeToString(b) = str
    THEN [val |-> CHOOSE b \in ByteStrings : EncodeToString(b) = str, err |-> ""]
    ELSE [val |-> <<>>, err |-> "illegal base64 data"]

\* ConfigEncryptor.EncryptAPIKey; nonceId and randOk are what rand.Reader gives
EncryptAPIKey(key, nonceId, randOk, apiKey) ==
    IF apiKey = "" THEN [val |-> "", err |-> ""]
    ELSE IF ~randOk THEN [val |-> "", err |-> "failed to generate nonce"]
    ELSE LET nonce == NonceBytes(nonceId)
             ciphertext == GcmSeal(nonce, key, nonceId, apiKey)
         IN  [val |-> EncodeToString(ciphertext), err |-> ""]

DecryptAPIKey_PlaintextFallback(key, encryptedKey) ==
    LET decoded == DecodeString(encryptedKey)
    IN  IF encryptedKey = "" \/ decoded.err # "" \/ Len(decoded.val) < NonceSize
        THEN [val |-> encryptedKey, err |-> ""]
        ELSE GcmOpen(key, SubSeq(decoded.val, 1, NonceSize),
                     SubSeq(decoded.val, NonceSize + 1, Len(decoded.val)))

\* ConfigEncryptor.DecryptAPIKey
DecryptAPIKey(key, encryptedKey) ==
    IF encryptedKey = "" THEN [val |-> "", err |-> ""]
    ELSE LET decoded == DecodeString(encryptedKey)
         IN  IF decoded.err # ""
             THEN [val |-> "", err |-> "failed to decode encrypted key"]
             ELSE IF Len(decoded.val) < NonceSize
             THEN [val |-> "", err |-> "ciphertext too short"]
             ELSE LET nonce == SubSeq(decoded.val, 1, NonceSize)
                      ciphertext == SubSeq(decoded.val, NonceSize + 1, Len(decoded.val))
                      opened == GcmOpen(key, nonce, ciphertext)
                  IN  IF opened.err # ""
                      THEN [val |-> "", err |-> "failed to decrypt API key"]
                      ELSE opened

(***************************************************************************)
(* Encryptor harness: one encryptor (key cKey) applied to the input cIn.   *)
(***************************************************************************)
NotBase64 == "not base64!"
CipherInputs == {NotBase64} \cup {EncodeToString(b) : b \in ByteStrings}

CryptoIdle ==
    /\ cPc = "off"
    /\ cKey = 0
    /\ cIn = ""
    /\ cOut = [val |-> "", err |-> ""]

CryptoInit ==
    /\ cPc = "start"
    /\ cKey \in Keys
    /\ cIn \in Values \cup CipherInputs
    /\ cOut = [val |-> "", err |-> ""]

\* EncryptAPIKey applied to a string the user typed
CryptoEncrypt ==
    /\ cPc = "start"
    /\ cIn \in Values
    /\ \E n \in NonceIds, randOk \in BOOLEAN :
          cOut' = EncryptAPIKey(cKey, n, randOk, cIn)
    /\ cPc' = "encrypted"
    /\ UNCHANGED <<cKey, cIn>>

CryptoDecrypt ==
    /\ cPc = "start"
    /\ cOut' = DecryptAPIKey(cKey, cIn)
    /\ cPc' = "decrypted"
    /\ UNCHANGED <<cKey, cIn>>

\* DecryptAPIKey applied to what EncryptAPIKey returned
CryptoDecryptEncrypted ==
    /\ cPc = "encrypted"
    /\ cOut.err = ""
    /\ cOut' = DecryptAPIKey(cKey, cOut.val)
    /\ cPc' = "roundtrip"
    /\ UNCHANGED <<cKey, cIn>>

\* what EncryptAPIKey returned, given to an encryptor built on another key
CryptoDecryptOtherKey ==
    /\ cPc = "encrypted"
    /\ cOut.err = ""
    /\ \E k \in Keys \ {cKey} : cOut' = DecryptAPIKey(k, cOut.val)
    /\ cPc' = "otherkey"
    /\ UNCHANGED <<cKey, cIn>>

(***************************************************************************)
(* Mapper harness: MapFieldToConfig and ValidateRequiredFields applied to  *)
(* a field list, a value and a ProviderConfig.                             *)
(***************************************************************************)
FieldNames ==
    ValidatorApiKeyFields \cup MapperBaseUrlFields \cup
    {"awsAccessKey", "awsSecretKey", "awsSessionToken", "awsRegion",
     "vertexProjectId", "vertexRegion",
     "azureApiKey", "customBaseUrl", "requestTimeoutMs", "baseUrl"}

ExtraKeys ==
    {"aws_access_key", "aws_secret_key", "aws_session_token", "aws_region",
     "vertex_project_id", "vertex_region",
     "awsSessionToken", "openAiBaseUrl", "liteLLMBaseUrl", "fireworksBaseUrl",
     "azureApiKey", "requestTimeoutMs"}

ExtraInputs ==
    {EmptyMap} \cup {[k \in {key} |-> v] : key \in ExtraKeys, v \in {"", "x"}}

ConfigInputs ==
    {[ID |-> "p", Name |-> "P", APIKey |-> a, BaseURL |-> b, ModelID |-> "",
      ExtraConfig |-> e] : a \in {"", "x"}, b \in {"", "x"}, e \in ExtraInputs}

\* the field lists given to the validator: every single field, and the
\* two-field lists over a few names
PairNames == {"apiKey", "awsRegion", "openAiBaseUrl"}

FieldLists ==
    {<<n>> : n \in FieldNames} \cup {<<a, b>> : a \in PairNames, b \in PairNames}

MapIdle ==
    /\ mPc = "off"
    /\ mField = <<>>
    /\ mValue = ""
    /\ mConfig = NewProviderConfig("", "")
    /\ mErr = ""

MapInit ==
    /\ mPc = "start"
    /\ mField \in FieldLists
    /\ mValue \in Values
    /\ mConfig \in ConfigInputs
    /\ mErr = ""

MapperMap ==
    /\ mPc = "start"
    /\ mConfig' = MapFieldToConfig(mField[1], mValue, mConfig)
    /\ mPc' = "mapped"
    /\ UNCHANGED <<mField, mValue, mErr>>

MapperValidate ==
    /\ mPc \in {"start", "mapped"}
    /\ mErr' = ValidateRequiredFields(mConfig.ID, mConfig, mField)
    /\ mPc' = IF mPc = "start" THEN "validated" ELSE "mapped_validated"
    /\ UNCHANGED <<mField, mValue, mConfig>>

\* the value held by the slot that MapFieldToConfig writes for fieldName,
\* found by mapping a probe value into an empty ProviderConfig
Probe == "<probe>"
SlotValue(fieldName, pc) ==
    LET r == MapFieldToConfig(fieldName, Probe, NewProviderConfig("", ""))
    IN  IF r.APIKey = Probe THEN pc.APIKey
        ELSE IF r.BaseURL = Probe THEN pc.BaseURL
        ELSE MapGet(pc.ExtraConfig, CHOOSE k \in DOMAIN r.ExtraConfig : TRUE)


(***************************************************************************)
(* config.CLIConfig and the YAML document.                                 *)
(*                                                                         *)
(* The document is a sequence of blocks in the order yaml.Marshal emits    *)
(* them: a head block (the scalar top-level keys, default_provider among   *)
(* them) and one block per provider in sorted key order.  A file that a    *)
(* failed write left behind is a proper prefix of the document, possibly   *)
(* followed by a torn block that no longer parses.                         *)
(***************************************************************************)
NoProviders == [k \in {} |-> NewProviderConfig("", "")]

\* createDefaultConfig
createDefaultConfig == [DefaultProvider |-> "", Providers |-> NoProviders]

\* every provider id of the model, in the order sort.Strings gives
ProviderOrder == <<"anthropic", "bedrock", "groq", "ollama", "openrouter", "together">>

SortedIds(S) == SelectSeq(ProviderOrder, LAMBDA id : id \in S)

HeadBlock(defaultProvider) ==
    [t |-> "head", default_provider |-> defaultProvider, key |-> "", id |-> "", name |-> "",
     api_key |-> "", base_url |-> "", model_id |-> "", extra_config |-> EmptyMap]

ProviderBlock(key, p) ==
    [t |-> "provider", default_provider |-> "", key |-> key, id |-> p.ID, name |-> p.Name,
     api_key |-> p.APIKey, base_url |-> p.BaseURL, model_id |-> p.ModelID,
     extra_config |-> p.ExtraConfig]

TornBlock ==
    [t |-> "torn", default_provider |-> "", key |-> "", id |-> "", name |-> "",
     api_key |-> "", base_url |-> "", model_id |-> "", extra_config |-> EmptyMap]

\* yaml.Marshal(&configCopy)
Marshal(config) ==
    LET ids == SortedIds(DOMAIN config.Providers)
    IN  <<HeadBlock(config.DefaultProvider)>> \o
        [i \in 1..Len(ids) |-> ProviderBlock(ids[i], config.Providers[ids[i]])]

\* yaml.Unmarshal(data, &config)
Unmarshal(data) ==
    IF \E i \in 1..Len(data) : data[i].t = "torn"
    THEN [val |-> createDefaultConfig, err |-> "yaml: could not parse"]
    ELSE LET heads == {i \in 1..Len(data) : data[i].t = "head"}
             provs == {i \in 1..Len(data) : data[i].t = "provider"}
             keys  == {data[i].key : i \in provs}
             blockOf(k) == data[CHOOSE i \in provs : data[i].key = k]
         IN  [val |-> [DefaultProvider |->
                          IF heads = {} THEN ""
                          ELSE data[CHOOSE i \in heads : TRUE].default_provider,
                       Providers |->
                          [k \in keys |->
                              [ID |-> blockOf(k).id, Name |-> blockOf(k).name,
                               APIKey |-> blockOf(k).api_key,
                               BaseURL |-> blockOf(k).base_url,
                               ModelID |-> blockOf(k).model_id,
                               ExtraConfig |-> blockOf(k).extra_config]]],
              err |-> ""]

(***************************************************************************)
(* ConfigManager.Validate: the errors it can return (the providers map is  *)
(* ranged over in no fixed order); the empty set when it returns nil.      *)
(***************************************************************************)
ValidateErrors(config) ==
    IF config.DefaultProvider # "" /\ config.DefaultProvider \notin DOMAIN config.Providers
    THEN {"default provider not found in providers"}
    ELSE LET firstError(id) ==
                 LET provider == config.Providers[id]
                 IN  IF provider.ID # id THEN "provider ID mismatch"
                     ELSE IF provider.Name = "" THEN "provider has empty name"
                     ELSE IF provider.APIKey = "" THEN "provider has empty API key"
                     ELSE IF provider.ModelID = "" THEN "provider has empty model ID"
                     ELSE ""
         IN  {firstError(id) : id \in DOMAIN config.Providers} \ {""}

(***************************************************************************)
(* ConfigManager.Load                                                      *)
(***************************************************************************)
\* the decrypt loop: the config with every non-empty api key decrypted, or
\* the error of a provider whose key does not decrypt
DecryptProviders(key, config) ==
    LET dec(id) == DecryptAPIKey(key, config.Providers[id].APIKey)
    IN  IF \E id \in DOMAIN config.Providers : dec(id).err # ""
        THEN [val |-> config, err |-> "failed to decrypt API key for provider"]
        ELSE [val |-> [config EXCEPT !.Providers =
                          [id \in DOMAIN config.Providers |->
                              [config.Providers[id] EXCEPT !.APIKey = dec(id).val]]],
              err |-> ""]

\* what Load computes from the file: [val, err]
LoadFile(key, file) ==
    LET parsed == Unmarshal(file.content)
    IN  IF parsed.err # ""
        THEN [val |-> createDefaultConfig, err |-> "failed to parse config file"]
        ELSE DecryptProviders(key, parsed.val)

Load ==
    /\ savePc = "idle"
    /\ IF ~disk.exists
       THEN /\ cmConfig' = createDefaultConfig
            /\ cmOrigin' = "fresh"
            /\ lastOp' = [op |-> "Load", err |-> ""]
       ELSE LET r == LoadFile(encKey, disk)
            IN  IF r.err # ""
                THEN /\ lastOp' = [op |-> "Load", err |-> r.err]
                     /\ UNCHANGED <<cmConfig, cmOrigin>>
                ELSE /\ cmConfig' = r.val
                     /\ cmOrigin' = "file"
                     /\ lastOp' = [op |-> "Load", err |-> ""]
    /\ UNCHANGED <<encKey, disk, savePc, saveBuf, saveArg>>

(***************************************************************************)
(* ConfigManager.Save: os.WriteFile opens the target with O_TRUNC and      *)
(* writes the data into it, so the steps of one Save are the opening (the  *)
(* file becomes empty), the writes, and the return.                        *)
(***************************************************************************)
\* the encrypt loop over a copy of the config; nonceOf and randOk are what
\* rand.Reader gives for each provider
EncryptProviders(key, config, nonceOf, randOk) ==
    LET enc(id) == EncryptAPIKey(key, nonceOf[id], randOk, config.Providers[id].APIKey)
    IN  IF \E id \in DOMAIN config.Providers : enc(id).err # ""
        THEN [val |-> config, err |-> "failed to encrypt API key for provider"]
        ELSE [val |-> [config EXCEPT !.Providers =
                          [id \in DOMAIN config.Providers |->
                              [config.Providers[id] EXCEPT !.APIKey = enc(id).val]]],
              err |-> ""]

\* Save up to and including the opening of the file by os.WriteFile
SaveOpen(config) ==
    /\ savePc = "idle"
    /\ \E dirOk \in BOOLEAN, openOk \in BOOLEAN, randOk \in BOOLEAN,
          nonceOf \in [DOMAIN config.Providers -> NonceIds] :
          LET configCopy == EncryptProviders(encKey, config, nonceOf, randOk)
          IN  IF ~dirOk
              THEN /\ lastOp' = [op |-> "Save", err |-> "failed to create config directory"]
                   /\ UNCHANGED <<disk, savePc, saveBuf, saveArg>>
              ELSE IF configCopy.err # ""
              THEN /\ lastOp' = [op |-> "Save", err |-> configCopy.err]
                   /\ UNCHANGED <<disk, savePc, saveBuf, saveArg>>
              ELSE IF ~openOk
              THEN /\ lastOp' = [op |-> "Save", err |-> "failed to write config file"]
                   /\ UNCHANGED <<disk, savePc, saveBuf, saveArg>>
              ELSE /\ disk' = [exists |-> TRUE, content |-> <<>>]
                   /\ saveBuf' = Marshal(configCopy.val)
                   /\ saveArg' = config
                   /\ savePc' = "writing"
                   /\ lastOp' = [op |-> "Save", err |-> "<running>"]
    /\ UNCHANGED <<cmOrigin, cmConfig, encKey>>

\* one more block reaches the file
SaveWrite ==
    /\ savePc = "writing"
    /\ Len(disk.content) < Len(saveBuf)
    /\ disk' = [disk EXCEPT !.content = Append(@, saveBuf[Len(@) + 1])]
    /\ UNCHANGED <<cmOrigin, cmConfig, encKey, savePc, saveBuf, saveArg, lastOp>>

\* the write fails (disk full, I/O error, the process is killed): Save
\* returns the error and the file stays as far as it was written
SaveWriteFails ==
    /\ savePc = "writing"
    /\ Len(disk.content) < Len(saveBuf)
    /\ \E torn \in BOOLEAN :
          disk' = [disk EXCEPT !.content = IF torn THEN Append(@, TornBlock) ELSE @]
    /\ savePc' = "idle"
    /\ lastOp' = [op |-> "Save", err |-> "failed to write config file"]
    /\ UNCHANGED <<cmOrigin, cmConfig, encKey, saveBuf, saveArg>>

SaveInPlace_Return ==
    /\ savePc = "writing"
    /\ Len(disk.content) = Len(saveBuf)
    /\ cmConfig' = Unmarshal(saveBuf).val
    /\ savePc' = "idle"
    /\ lastOp' = [op |-> "Save", err |-> ""]
    /\ UNCHANGED <<cmOrigin, encKey, disk, saveBuf, saveArg>>

\* everything is written: cm.config = config; return nil
SaveReturn ==
    /\ savePc = "writing"
    /\ Len(disk.content) = Len(saveBuf)
    /\ cmConfig' = saveArg
    /\ savePc' = "idle"
    /\ lastOp' = [op |-> "Save", err |-> ""]
    /\ UNCHANGED <<cmOrigin, encKey, disk, saveBuf, saveArg>>

\* a caller saving the manager's own config: Save(cm.GetConfig())
Save ==
    /\ cmOrigin # "none"
    /\ SaveOpen(cmConfig)

(***************************************************************************)
(* ConfigManager.SetDefaultProvider / AddProvider / RemoveProvider         *)
(***************************************************************************)
SetDefaultProvider(providerID) ==
    /\ savePc = "idle"
    /\ IF cmOrigin = "none"
       THEN /\ lastOp' = [op |-> "SetDefaultProvider", err |-> "no config loaded"]
            /\ UNCHANGED cmConfig
       ELSE IF providerID \notin DOMAIN cmConfig.Providers
       THEN /\ lastOp' = [op |-> "SetDefaultProvider", err |-> "provider not found"]
            /\ UNCHANGED cmConfig
       ELSE /\ cmConfig' = [cmConfig EXCEPT !.DefaultProvider = providerID]
            /\ lastOp' = [op |-> "SetDefaultProvider", err |-> ""]
    /\ UNCHANGED <<cmOrigin, encKey, disk, savePc, saveBuf, saveArg>>

AddProvider_WritesThrough(provider) ==
    /\ savePc = "idle"
    /\ LET config == IF cmOrigin = "none" THEN createDefaultConfig ELSE cmConfig
           next   == [config EXCEPT !.Providers = MapSet(@, provider.ID, provider)]
       IN  /\ cmConfig' = next
           /\ disk' = [exists |-> TRUE, content |-> Marshal(next)]
    /\ cmOrigin' = IF cmOrigin = "none" THEN "fresh" ELSE cmOrigin
    /\ lastOp' = [op |-> "AddProvider", err |-> ""]
    /\ UNCHANGED <<encKey, savePc, saveBuf, saveArg>>

AddProvider(provider) ==
    /\ savePc = "idle"
    /\ LET config == IF cmOrigin = "none" THEN createDefaultConfig ELSE cmConfig
       IN  cmConfig' = [config EXCEPT !.Providers = MapSet(@, provider.ID, provider)]
    /\ cmOrigin' = IF cmOrigin = "none" THEN "fresh" ELSE cmOrigin
    /\ lastOp' = [op |-> "AddProvider", err |-> ""]
    /\ UNCHANGED <<encKey, disk, savePc, saveBuf, saveArg>>

RemoveProvider_KeepsDefault(providerID) ==
    /\ savePc = "idle"
    /\ IF cmOrigin = "none" \/ providerID \notin DOMAIN cmConfig.Providers
       THEN /\ lastOp' = [op |-> "RemoveProvider", err |-> "provider not found"]
            /\ UNCHANGED cmConfig
       ELSE /\ cmConfig' = [cmConfig EXCEPT !.Providers = MapDelete(@, providerID)]
            /\ lastOp' = [op |-> "RemoveProvider", err |-> ""]
    /\ UNCHANGED <<cmOrigin, encKey, disk, savePc, saveBuf, saveArg>>

RemoveProvider(providerID) ==
    /\ savePc = "idle"
    /\ IF cmOrigin = "none"
       THEN /\ lastOp' = [op |-> "RemoveProvider", err |-> "no config loaded"]
            /\ UNCHANGED cmConfig
       ELSE IF providerID \notin DOMAIN cmConfig.Providers
       THEN /\ lastOp' = [op |-> "RemoveProvider", err |-> "provider not found"]
            /\ UNCHANGED cmConfig
       ELSE /\ cmConfig' =
                 [cmConfig EXCEPT
                     !.Providers = MapDelete(@, providerID),
                     !.DefaultProvider = IF @ = providerID THEN "" ELSE @]
            /\ lastOp' = [op |-> "RemoveProvider", err |-> ""]
    /\ UNCHANGED <<cmOrigin, encKey, disk, savePc, saveBuf, saveArg>>

\* NewConfigManager: a new process starts with no config loaded and an
\* encryptor on the key of the key file
NewConfigManager ==
    /\ savePc = "idle"
    /\ cmOrigin # "none"
    /\ cmOrigin' = "none"
    /\ cmConfig' = createDefaultConfig
    /\ lastOp' = [op |-> "NewConfigManager", err |-> ""]
    /\ UNCHANGED <<encKey, disk, savePc, saveBuf, saveArg>>

(***************************************************************************)
(* The store driven through its API by a caller.                           *)
(***************************************************************************)
StoreIds == {"anthropic", "bedrock", "ollama"}

\* the ProviderConfigs a caller passes to AddProvider
ProviderInputs ==
    {[ID |-> "anthropic", Name |-> "Anthropic", APIKey |-> k, BaseURL |-> "",
      ModelID |-> "claude-sonnet-4-5-20250929", ExtraConfig |-> EmptyMap] :
        k \in NonEmptyValues}
    \cup
    {[ID |-> "bedrock", Name |-> "AWS Bedrock", APIKey |-> "", BaseURL |-> "",
      ModelID |-> "anthropic.claude-3-5-sonnet-20241022-v2:0",
      ExtraConfig |-> [k \in {"aws_access_key", "aws_secret_key", "aws_region"} |-> "x"]]}

StoreIdle ==
    /\ cmOrigin = "none"
    /\ cmConfig = createDefaultConfig
    /\ encKey = 0
    /\ disk = [exists |-> FALSE, content |-> <<>>]
    /\ savePc = "off"
    /\ saveBuf = <<>>
    /\ saveArg = createDefaultConfig
    /\ lastOp = [op |-> "", err |-> ""]

\* a first run: no configuration file, the key file just created
StoreInit ==
    /\ cmOrigin = "none"
    /\ cmConfig = createDefaultConfig
    /\ encKey \in Keys
    /\ disk = [exists |-> FALSE, content |-> <<>>]
    /\ savePc = "idle"
    /\ saveBuf = <<>>
    /\ saveArg = createDefaultConfig
    /\ lastOp = [op |-> "", err |-> ""]

(***************************************************************************)
(* The provider catalog (generated.GetProviderDefinitions): six of its     *)
(* definitions, one of each shape the wizard and the fetcher tell apart.   *)
(***************************************************************************)
\* a generated.ModelInfo; the prices in cents per million tokens
GenModel(maxTokens, contextWindow, images, promptCache, inputPrice, outputPrice) ==
    [MaxTokens |-> maxTokens, ContextWindow |-> contextWindow,
     SupportsImages |-> images, SupportsPromptCache |-> promptCache,
     InputPrice |-> inputPrice, OutputPrice |-> outputPrice]

NoModels == [m \in {} |-> GenModel(0, 0, FALSE, FALSE, 0, 0)]

Catalog ==
    [anthropic |->
        [ID |-> "anthropic", Name |-> "Anthropic",
         RequiredFields |-> <<"apiKey">>, OptionalFields |-> <<>>,
         HasDynamicModels |-> FALSE, SupportsModelListing |-> FALSE,
         Models |-> [m \in {"claude-sonnet-4-5-20250929", "claude-3-5-haiku-20241022"} |->
                        GenModel(8192, 200000, TRUE, TRUE, 300, 1500)],
         DefaultModelID |-> "claude-sonnet-4-5-20250929"],
     bedrock |->
        [ID |-> "bedrock", Name |-> "AWS Bedrock",
         RequiredFields |-> <<"awsAccessKey", "awsSecretKey", "awsRegion">>,
         OptionalFields |-> <<"awsSessionToken">>,
         HasDynamicModels |-> FALSE, SupportsModelListing |-> FALSE,
         Models |-> [m \in {"anthropic.claude-3-5-sonnet-20241022-v2:0"} |->
                        GenModel(8192, 200000, TRUE, TRUE, 300, 1500)],
         DefaultModelID |-> "anthropic.claude-3-5-sonnet-20241022-v2:0"],
     groq |->
        [ID |-> "groq", Name |-> "Groq",
         RequiredFields |-> <<"groqApiKey">>, OptionalFields |-> <<>>,
         HasDynamicModels |-> FALSE, SupportsModelListing |-> FALSE,
         Models |-> [m \in {"llama-3.3-70b-versatile"} |->
                        GenModel(32768, 131072, FALSE, FALSE, 59, 79)],
         DefaultModelID |-> "llama-3.3-70b-versatile"],
     ollama |->
        [ID |-> "ollama", Name |-> "Ollama",
         RequiredFields |-> <<"ollamaBaseUrl">>, OptionalFields |-> <<>>,
         HasDynamicModels |-> TRUE, SupportsModelListing |-> TRUE,
         Models |-> NoModels,
         DefaultModelID |-> ""],
     openrouter |->
        [ID |-> "openrouter", Name |-> "OpenRouter",
         RequiredFields |-> <<"openRouterApiKey">>, OptionalFields |-> <<>>,
         HasDynamicModels |-> TRUE, SupportsModelListing |-> TRUE,
         Models |-> [m \in {"anthropic/claude-3.5-sonnet"} |->
                        GenModel(8192, 200000, TRUE, TRUE, 300, 1500)],
         DefaultModelID |-> "anthropic/claude-3.5-sonnet"],
     together |->
        [ID |-> "together", Name |-> "Together",
         RequiredFields |-> <<"togetherApiKey">>, OptionalFields |-> <<>>,
         HasDynamicModels |-> TRUE, SupportsModelListing |-> FALSE,
         Models |-> NoModels,
         DefaultModelID |-> ""]]

CatalogIds == DOMAIN Catalog

(***************************************************************************)
(* models.FetchModelsForProvider and fetchWithContext.                     *)
(***************************************************************************)
\* config.ModelInfo made from a generated.ModelInfo
ConfigModel(model) ==
    [MaxTokens |-> model.MaxTokens, ContextWindow |-> model.ContextWindow,
     SupportsImages |-> model.SupportsImages]

NoConfigModels == [m \in {} |-> ConfigModel(GenModel(0, 0, FALSE, FALSE, 0, 0))]

\* getHardcodedModels
getHardcodedModels(def) ==
    [modelID \in DOMAIN def.Models |-> ConfigModel(def.Models[modelID])]

GetModelFetcher_AlwaysOpenAI(providerID) ==
    CASE providerID = "openrouter" -> "OpenRouterFetcher"
      [] providerID = "ollama"     -> "OllamaFetcher"
      [] OTHER                     -> "OpenAICompatibleFetcher"

\* GetModelFetcher; "nil" when the provider has no fetcher
GetModelFetcher(providerID) ==
    CASE providerID = "openrouter" -> "OpenRouterFetcher"
      [] providerID = "ollama"     -> "OllamaFetcher"
      [] providerID \in {"openai", "openai-native", "groq"} -> "OpenAICompatibleFetcher"
      [] OTHER                     -> "nil"

\* what one run of fetcher.FetchModels can give: a map of models (possibly
\* empty) with a nil error, or a nil map with the error of the failing step
\* (client.Do, the status check, the JSON decoder)
LiveModelSets == {{"live/model-a"}, {"live/model-a", "live/model-b"}, {}}

FetcherResults ==
    {[models |-> [m \in S |-> ConfigModel(GenModel(4096, 8192, FALSE, FALSE, 0, 0))], err |-> ""] :
        S \in LiveModelSets}
    \cup
    {[models |-> NoConfigModels, err |-> e] :
        e \in {"failed to fetch models", "API returned status", "failed to decode response"}}

TimeoutError == "request timeout after 10s"

FallbackOrModels_NoEmptyCheck(def, res) ==
    IF res.err # ""
    THEN [models |-> getHardcodedModels(def),
          err |-> "failed to fetch models from API: " \o res.err]
    ELSE [models |-> res.models, err |-> ""]

\* FetchModelsForProvider after fetchWithContext returned res
FallbackOrModels(def, res) ==
    IF res.err # ""
    THEN [models |-> getHardcodedModels(def),
          err |-> "failed to fetch models from API: " \o res.err]
    ELSE IF DOMAIN res.models = {}
    THEN [models |-> getHardcodedModels(def), err |-> "API returned no models"]
    ELSE [models |-> res.models, err |-> ""]

NoResult == [models |-> NoConfigModels, err |-> ""]

\* FetchModelsForProvider up to the select of fetchWithContext
FetchModelsForProvider ==
    /\ fPc = "start"
    /\ LET def == Catalog[fDef]
       IN  IF ~def.HasDynamicModels \/ GetModelFetcher(def.ID) = "nil"
           THEN /\ fRet' = [models |-> getHardcodedModels(def), err |-> ""]
                /\ fPc' = "returned"
                /\ UNCHANGED fGo
           ELSE /\ fGo' = "running"
                /\ fPc' = "select"
                /\ UNCHANGED fRet
    /\ UNCHANGED <<fDef, fApiKey, fBaseURL, fChan, fDeadline, fSeen>>

\* make(chan result, 1)
resultChanCap == 1

CanSend_Unbuffered == fPc = "select"

\* a send on resultChan proceeds when the buffer has room or a receiver is
\* waiting in the select
CanSend == Len(fChan) < resultChanCap \/ fPc = "select"

\* the goroutine: fetcher.FetchModels returns and its result is sent on
\* resultChan
FetcherFinishes ==
    /\ fGo = "running"
    /\ CanSend
    /\ \E res \in FetcherResults : fChan' = Append(fChan, res)
    /\ fGo' = "done"
    /\ UNCHANGED <<fDef, fApiKey, fBaseURL, fPc, fDeadline, fSeen, fRet>>

\* httpTimeout after context.WithTimeout the context's Done channel closes
DeadlineFires ==
    /\ fPc = "select"
    /\ ~fDeadline
    /\ fDeadline' = TRUE
    /\ UNCHANGED <<fDef, fApiKey, fBaseURL, fPc, fGo, fChan, fSeen, fRet>>

\* select, case <-ctx.Done(), and the rest of FetchModelsForProvider
SelectDone ==
    /\ fPc = "select"
    /\ fDeadline
    /\ fSeen' = [models |-> NoConfigModels, err |-> TimeoutError]
    /\ fRet' = FallbackOrModels(Catalog[fDef], fSeen')
    /\ fPc' = "returned"
    /\ UNCHANGED <<fDef, fApiKey, fBaseURL, fGo, fChan, fDeadline>>

\* select, case res := <-resultChan, and the rest of FetchModelsForProvider
SelectResult ==
    /\ fPc = "select"
    /\ fChan # <<>>
    /\ fSeen' = fChan[1]
    /\ fChan' = <<>>
    /\ fRet' = FallbackOrModels(Catalog[fDef], fSeen')
    /\ fPc' = "returned"
    /\ UNCHANGED <<fDef, fApiKey, fBaseURL, fGo, fDeadline>>

FetchIdle ==
    /\ fDef = ""
    /\ fApiKey = ""
    /\ fBaseURL = ""
    /\ fPc = "off"
    /\ fGo = "none"
    /\ fChan = <<>>
    /\ fDeadline = FALSE
    /\ fSeen = NoResult
    /\ fRet = NoResult

FetchInit ==
    /\ fDef \in CatalogIds
    /\ fApiKey \in {"", "sk-1"}
    /\ fBaseURL \in {"", "http://localhost:11434"}
    /\ fPc = "start"
    /\ fGo = "none"
    /\ fChan = <<>>
    /\ fDeadline = FALSE
    /\ fSeen = NoResult
    /\ fRet = NoResult

(***************************************************************************)
(* auth.ProviderWizard and auth.FastSetup.  Every answer the user gives at *)
(* a prompt is an input of the action; a prompt loop that asks again after *)
(* an invalid answer is modelled by the answers that end it.               *)
(***************************************************************************)
MaxOps == 2         \* provider additions (wizard add, fast setup) made

Interrupted == "<interrupt>"        \* survey.AskOne returned an error
Answers     == {"", "sk-1"}
Confirms    == {"yes", "no", Interrupted}

\* ProviderRegistry.ValidateProviderConfig: the loop over the required fields
RECURSIVE RegistryCheckFrom(_, _, _)
RegistryCheckFrom(config, requiredFields, i) ==
    IF i > Len(requiredFields) THEN ""
    ELSE IF requiredFields[i] = "apiKey" /\ config.APIKey = ""
    THEN "API key is required for provider"
    ELSE IF requiredFields[i] = "baseUrl" /\ config.BaseURL = ""
    THEN "base URL is required for provider"
    ELSE RegistryCheckFrom(config, requiredFields, i + 1)

\* ProviderRegistry.ValidateProviderConfig
ValidateProviderConfig(config) ==
    IF config.ID \notin CatalogIds THEN "provider not found"
    ELSE LET def == Catalog[config.ID]
             e   == RegistryCheckFrom(config, def.RequiredFields, 1)
         IN  IF e # "" THEN e
             ELSE IF /\ DOMAIN def.Models # {}
                     /\ config.ModelID # ""
                     /\ config.ModelID \notin DOMAIN def.Models
             THEN "model " \o config.ModelID \o " not found for provider " \o config.ID
             ELSE ""

\* promptForField, given what the user answers
promptForField(field, required, answer) ==
    IF answer = Interrupted THEN [val |-> "", err |-> "failed to get field"]
    ELSE IF required /\ answer = "" THEN [val |-> "", err |-> "field is required"]
    ELSE [val |-> answer, err |-> ""]

\* collectRequiredFields from the i-th required field on
RECURSIVE CollectRequiredFrom(_, _, _, _)
CollectRequiredFrom(def, pc, answers, i) ==
    IF i > Len(def.RequiredFields)
    THEN LET e == ValidateRequiredFields(def.ID, pc, def.RequiredFields)
         IN  [val |-> pc, err |-> IF e = "" THEN "" ELSE "validation failed: " \o e]
    ELSE LET v == promptForField(def.RequiredFields[i], TRUE, answers[i])
         IN  IF v.err # "" THEN [val |-> pc, err |-> v.err]
             ELSE CollectRequiredFrom(
                      def, MapFieldToConfig(def.RequiredFields[i], v.val, pc), answers, i + 1)

collectRequiredFields_SkipsSingleField(def, pc, answers) ==
    IF Len(def.RequiredFields) <= 1 THEN [val |-> pc, err |-> ""]
    ELSE CollectRequiredFrom(def, pc, answers, 1)

collectRequiredFields(def, pc, answers) ==
    IF Len(def.RequiredFields) = 0 THEN [val |-> pc, err |-> ""]
    ELSE CollectRequiredFrom(def, pc, answers, 1)

\* the loop over the optional fields, from the i-th on
RECURSIVE CollectOptionalFrom(_, _, _, _)
CollectOptionalFrom(def, pc, answers, i) ==
    IF i > Len(def.OptionalFields) THEN [val |-> pc, err |-> ""]
    ELSE LET field == def.OptionalFields[i]
             v     == promptForField(field, FALSE, answers[i])
         IN  IF v.err # "" THEN [val |-> pc, err |-> v.err]
             ELSE CollectOptionalFrom(
                      def,
                      IF v.val = "" THEN pc
                      ELSE IF field = "baseUrl" THEN [pc EXCEPT !.BaseURL = v.val]
                      ELSE SetExtra(pc, field, v.val),
                      answers, i + 1)

collectOptionalFields(def, pc, configureOptional, answers) ==
    IF Len(def.OptionalFields) = 0 THEN [val |-> pc, err |-> ""]
    ELSE IF configureOptional = Interrupted
    THEN [val |-> pc, err |-> "failed to get optional config choice"]
    ELSE IF configureOptional = "no" THEN [val |-> pc, err |-> ""]
    ELSE CollectOptionalFrom(def, pc, answers, 1)

\* what FetchModelsForProvider can return for def
FetchOutcomes(def) ==
    IF ~def.HasDynamicModels \/ GetModelFetcher(def.ID) = "nil"
    THEN {[models |-> getHardcodedModels(def), err |-> ""]}
    ELSE {FallbackOrModels(def, res) :
             res \in FetcherResults \cup {[models |-> NoConfigModels, err |-> TimeoutError]}}

\* showModelList: the model ids it can set; none when it returns an error
showModelList(def, pc) ==
    LET modelMaps == IF def.SupportsModelListing
                     THEN {r.models : r \in FetchOutcomes(def)}
                     ELSE {getHardcodedModels(def)}
    IN  UNION {DOMAIN modelMap : modelMap \in modelMaps}

\* model ids a user types at "Enter model ID"
TypedModelIds(def) == {"my-model"} \cup DOMAIN def.Models

\* selectModel: the results it can return
selectModel(def, pc) ==
    LET chosen ==
            (IF def.DefaultModelID # "" THEN {def.DefaultModelID} ELSE {})
            \cup showModelList(def, pc)
            \cup (IF def.HasDynamicModels /\ DOMAIN def.Models = {} THEN {""} ELSE {})
            \cup {m \in TypedModelIds(def) : DOMAIN def.Models = {} \/ m \in DOMAIN def.Models}
    IN  {[val |-> [pc EXCEPT !.ModelID = m], err |-> ""] : m \in chosen}
        \cup {[val |-> pc, err |-> "failed to get model ID"]}

\* addProvider up to ValidateProviderConfig: the results it can reach
addProvider(providerID, reqAnswers, configureOptional, optAnswers) ==
    LET def == Catalog[providerID]
        r1  == collectRequiredFields(def, NewProviderConfig(providerID, def.Name), reqAnswers)
        r2  == collectOptionalFields(def, r1.val, configureOptional, optAnswers)
    IN  IF r1.err # "" THEN {r1}
        ELSE IF r2.err # "" THEN {r2}
        ELSE {IF r3.err # "" THEN r3
              ELSE LET e == ValidateProviderConfig(r3.val)
                   IN  [val |-> r3.val,
                        err |-> IF e = "" THEN ""
                                ELSE "configuration validation failed: " \o e] :
                 r3 \in selectModel(def, r2.val)}

\* what Load gives for the file as it is
LoadOutcome ==
    IF ~disk.exists
    THEN [val |-> createDefaultConfig, origin |-> "fresh", err |-> ""]
    ELSE LET r == LoadFile(encKey, disk)
         IN  [val |-> r.val, origin |-> "file", err |-> r.err]

\* the process ends and its ConfigManager with it
ManagerGone ==
    /\ cmOrigin' = "none"
    /\ cmConfig' = createDefaultConfig

\* ProviderWizard.Run up to the menu loop
WizardRun ==
    /\ wPc = "none"
    /\ savePc = "idle"
    /\ \E overwrite \in BOOLEAN :
          IF disk.exists /\ ~overwrite
          THEN UNCHANGED <<wPc, storeVars>>
          ELSE LET r == LoadOutcome
               IN  IF r.err # ""
                   THEN UNCHANGED <<wPc, storeVars>>
                   ELSE /\ cmConfig' = r.val
                        /\ cmOrigin' = r.origin
                        /\ lastOp' = [op |-> "Load", err |-> ""]
                        /\ wPc' = "menu"
                        /\ UNCHANGED <<encKey, disk, savePc, saveBuf, saveArg>>
    /\ UNCHANGED <<wOps, wPlaced, wErr>>

\* menu choice "add": addProvider
WizardAdd ==
    /\ wPc = "menu"
    /\ wOps < MaxOps
    /\ \E providerID \in CatalogIds, configureOptional \in Confirms :
       \E reqAnswers \in [1..Len(Catalog[providerID].RequiredFields) -> Answers],
          optAnswers \in [1..Len(Catalog[providerID].OptionalFields) -> Answers] :
       \E r \in addProvider(providerID, reqAnswers, configureOptional, optAnswers) :
          IF r.err # ""
          THEN /\ wPc' = "addfailed"
               /\ wErr' = r.err
               /\ UNCHANGED <<storeVars, wOps, wPlaced>>
          ELSE /\ AddProvider(r.val)
               /\ wOps' = wOps + 1
               /\ wPlaced' = [by |-> "add", id |-> providerID]
               /\ UNCHANGED <<wPc, wErr>>

WizardContinue_Terminates ==
    /\ wPc = "addfailed"
    /\ wPc' = "none"
    /\ wErr' = ""
    /\ ManagerGone
    /\ UNCHANGED <<wOps, wPlaced, encKey, disk, savePc, saveBuf, saveArg, lastOp>>

\* Run prints "Error adding provider: ..." and continues with the next menu
WizardContinue ==
    /\ wPc = "addfailed"
    /\ wPc' = "menu"
    /\ wErr' = ""
    /\ UNCHANGED <<wOps, wPlaced, storeVars>>

\* the provider id cut out of the selected option "Name (id)status": the
\* text between the last "(" and the last ")"
ExtractProviderID(id, status) ==
    IF status = "" THEN id ELSE "current default"

\* menu choice "remove": removeProvider
WizardRemove ==
    /\ wPc = "menu"
    /\ DOMAIN cmConfig.Providers # {}
    /\ \E id \in DOMAIN cmConfig.Providers, confirm \in BOOLEAN :
          LET providerID == ExtractProviderID(id, "")
          IN  IF confirm THEN RemoveProvider(providerID) ELSE UNCHANGED storeVars
    /\ UNCHANGED <<wPc, wOps, wPlaced, wErr>>

\* menu choice "default": setDefaultProvider
WizardSetDefault ==
    /\ wPc = "menu"
    /\ DOMAIN cmConfig.Providers # {}
    /\ \E id \in DOMAIN cmConfig.Providers :
          LET status     == IF id = cmConfig.DefaultProvider THEN " (current default)" ELSE ""
              providerID == ExtractProviderID(id, status)
          IN  SetDefaultProvider(providerID)
    /\ UNCHANGED <<wPc, wOps, wPlaced, wErr>>

\* menu choice "exit"
WizardExit ==
    /\ wPc = "menu"
    /\ wPc' = "none"
    /\ wErr' = ""
    /\ ManagerGone
    /\ UNCHANGED <<wOps, wPlaced, encKey, disk, savePc, saveBuf, saveArg, lastOp>>

\* menu choice "save": saveAndExit up to the opening of the file
WizardSaveAndExit ==
    /\ wPc = "menu"
    /\ IF DOMAIN cmConfig.Providers = {}
       THEN /\ wPc' = "none"
            /\ ManagerGone
            /\ lastOp' = [op |-> "saveAndExit", err |-> ""]
            /\ UNCHANGED <<encKey, disk, savePc, saveBuf, saveArg>>
       ELSE IF ValidateErrors(cmConfig) # {}
       THEN /\ wPc' = "none"
            /\ ManagerGone
            /\ lastOp' = [op |-> "saveAndExit", err |-> "configuration validation failed"]
            /\ UNCHANGED <<encKey, disk, savePc, saveBuf, saveArg>>
       ELSE /\ SaveOpen(cmConfig)
            /\ wPc' = "wizsave"
    /\ UNCHANGED <<wOps, wPlaced, wErr>>

\* isAPIKeyField on the field names of the model: those that contain
\* "apikey" in any case, and "key"
isAPIKeyField(fieldName) ==
    fieldName \in ValidatorApiKeyFields \cup {"azureApiKey", "key"}

\* strings.TrimSpace(strings.ToLower(providerID)) on the ids of FastSetupIds
Normalize(providerID) ==
    CASE providerID = "OpenRouter"   -> "openrouter"
      [] providerID = " anthropic "  -> "anthropic"
      [] OTHER                       -> providerID

FastSetupIds == CatalogIds \cup {"", "nosuch", "OpenRouter", " anthropic "}

\* the first required field that is an api key field; 0 when there is none
FirstAPIKeyField(def) ==
    LET S == {i \in 1..Len(def.RequiredFields) : isAPIKeyField(def.RequiredFields[i])}
    IN  IF S = {} THEN 0 ELSE CHOOSE i \in S : \A j \in S : i <= j

\* the error of validateAndPromptParams and setAPIKeyForProvider for a
\* provider none of whose required fields is an api key field
NoAPIKeyFieldError(providerID) ==
    "provider " \o providerID \o " does not have an API key field"

\* validateAndPromptParams
validateAndPromptParams(providerID, apiKey, answer) ==
    IF providerID = ""
    THEN [id |-> "", key |-> "", err |-> "provider ID is required"]
    ELSE LET id == Normalize(providerID)
         IN  IF id \notin CatalogIds
             THEN [id |-> "", key |-> "", err |-> "provider not found"]
             ELSE IF apiKey # "" THEN [id |-> id, key |-> apiKey, err |-> ""]
             ELSE IF FirstAPIKeyField(Catalog[id]) = 0
             THEN [id |-> "", key |-> "", err |-> NoAPIKeyFieldError(id)]
             ELSE LET field == Catalog[id].RequiredFields[FirstAPIKeyField(Catalog[id])]
                      v     == promptForField(field, TRUE, answer)
                  IN  IF v.err # ""
                      THEN [id |-> "", key |-> "", err |-> "failed to get API key"]
                      ELSE [id |-> id, key |-> v.val, err |-> ""]

\* setAPIKeyForProvider
setAPIKeyForProvider(def, apiKey, pc) ==
    IF FirstAPIKeyField(def) = 0
    THEN [val |-> pc, err |-> NoAPIKeyFieldError(def.ID)]
    ELSE [val |-> MapFieldToConfig(def.RequiredFields[FirstAPIKeyField(def)], apiKey, pc),
          err |-> ""]

\* FastSetup: the loop over the required fields that are not api key fields
RECURSIVE CollectAdditionalFrom(_, _, _, _)
CollectAdditionalFrom(def, pc, answers, i) ==
    IF i > Len(def.RequiredFields) THEN [val |-> pc, err |-> ""]
    ELSE IF isAPIKeyField(def.RequiredFields[i])
    THEN CollectAdditionalFrom(def, pc, answers, i + 1)
    ELSE LET v == promptForField(def.RequiredFields[i], TRUE, answers[i])
         IN  IF v.err # "" THEN [val |-> pc, err |-> v.err]
             ELSE CollectAdditionalFrom(
                      def, MapFieldToConfig(def.RequiredFields[i], v.val, pc), answers, i + 1)

\* selectModelForProvider: the results it can return (a provider without a
\* default model gets whichever model the map iteration yields first)
selectModelForProvider(def, pc) ==
    IF DOMAIN def.Models = {}
    THEN IF def.HasDynamicModels
         THEN {[val |-> [pc EXCEPT !.ModelID = m], err |-> ""] : m \in {"", "my-model"}}
              \cup {[val |-> pc, err |-> "failed to get model ID"]}
         ELSE {[val |-> pc, err |-> ""]}
    ELSE IF def.DefaultModelID # ""
    THEN {[val |-> [pc EXCEPT !.ModelID = def.DefaultModelID], err |-> ""]}
    ELSE {[val |-> [pc EXCEPT !.ModelID = m], err |-> ""] : m \in DOMAIN def.Models}

\* FastSetup from the provider definition to ValidateProviderConfig: the
\* results it can reach
FastSetupProvider(providerID, apiKey, reqAnswers, configureOptional, optAnswers) ==
    LET def == Catalog[providerID]
        r1  == setAPIKeyForProvider(def, apiKey, NewProviderConfig(providerID, def.Name))
        r2  == IF Len(def.RequiredFields) > 1
               THEN CollectAdditionalFrom(def, r1.val, reqAnswers, 1)
               ELSE r1
        e2  == ValidateRequiredFields(def.ID, r2.val, def.RequiredFields)
        r3  == collectOptionalFields(def, r2.val, configureOptional, optAnswers)
    IN  IF r1.err # "" THEN {r1}
        ELSE IF r2.err # "" THEN {r2}
        ELSE IF e2 # "" THEN {[val |-> r2.val, err |-> "validation failed: " \o e2]}
        ELSE IF r3.err # "" THEN {r3}
        ELSE {IF r4.err # "" THEN r4
              ELSE LET e == ValidateProviderConfig(r4.val)
                   IN  [val |-> r4.val,
                        err |-> IF e = "" THEN ""
                                ELSE "configuration validation failed: " \o e] :
                 r4 \in selectModelForProvider(def, r3.val)}

FastSetup_AddsUnvalidated ==
    /\ wPc = "none"
    /\ savePc = "idle"
    /\ wOps < MaxOps
    /\ \E providerID \in FastSetupIds, apiKey \in {"", "sk-1"},
          answer \in Answers \cup {Interrupted},
          configureOptional \in Confirms :
          LET params == validateAndPromptParams(providerID, apiKey, answer)
              loaded == LoadOutcome
          IN  IF params.err # ""
              THEN /\ wPc' = "fastfailed"
                   /\ wErr' = params.err
                   /\ UNCHANGED <<wOps, wPlaced, storeVars>>
              ELSE IF loaded.err # ""
              THEN /\ wPc' = "fastfailed"
                   /\ wErr' = "failed to load config"
                   /\ UNCHANGED <<wOps, wPlaced, storeVars>>
              ELSE \E reqAnswers \in [1..Len(Catalog[params.id].RequiredFields) -> Answers],
                      optAnswers \in [1..Len(Catalog[params.id].OptionalFields) -> Answers] :
                   \E r \in FastSetupProvider(params.id, params.key, reqAnswers,
                                              configureOptional, optAnswers) :
                      IF FALSE
                      THEN /\ wPc' = "fastfailed"
                           /\ wErr' = r.err
                           /\ UNCHANGED <<wOps, wPlaced, storeVars>>
                      ELSE /\ cmConfig' = [loaded.val EXCEPT
                                              !.Providers = MapSet(@, r.val.ID, r.val)]
                           /\ cmOrigin' = loaded.origin
                           /\ lastOp' = [op |-> "AddProvider", err |-> ""]
                           /\ wPc' = "fastadded"
                           /\ wOps' = wOps + 1
                           /\ wPlaced' = [by |-> "FastSetup", id |-> params.id]
                           /\ UNCHANGED wErr
                           /\ UNCHANGED <<encKey, disk, savePc, saveBuf, saveArg>>

\* FastSetup up to and including configManager.AddProvider
FastSetup ==
    /\ wPc = "none"
    /\ savePc = "idle"
    /\ wOps < MaxOps
    /\ \E providerID \in FastSetupIds, apiKey \in {"", "sk-1"},
          answer \in Answers \cup {Interrupted},
          configureOptional \in Confirms :
          LET params == validateAndPromptParams(providerID, apiKey, answer)
              loaded == LoadOutcome
          IN  IF params.err # ""
              THEN /\ wPc' = "fastfailed"
                   /\ wErr' = params.err
                   /\ UNCHANGED <<wOps, wPlaced, storeVars>>
              ELSE IF loaded.err # ""
              THEN /\ wPc' = "fastfailed"
                   /\ wErr' = "failed to load config"
                   /\ UNCHANGED <<wOps, wPlaced, storeVars>>
              ELSE \E reqAnswers \in [1..Len(Catalog[params.id].RequiredFields) -> Answers],
                      optAnswers \in [1..Len(Catalog[params.id].OptionalFields) -> Answers] :
                   \E r \in FastSetupProvider(params.id, params.key, reqAnswers,
                                              configureOptional, optAnswers) :
                      IF r.err # ""
                      THEN /\ wPc' = "fastfailed"
                           /\ wErr' = r.err
                           /\ UNCHANGED <<wOps, wPlaced, storeVars>>
                      ELSE /\ cmConfig' = [loaded.val EXCEPT
                                              !.Providers = MapSet(@, r.val.ID, r.val)]
                           /\ cmOrigin' = loaded.origin
                           /\ lastOp' = [op |-> "AddProvider", err |-> ""]
                           /\ wPc' = "fastadded"
                           /\ wOps' = wOps + 1
                           /\ wPlaced' = [by |-> "FastSetup", id |-> params.id]
                           /\ UNCHANGED wErr
                           /\ UNCHANGED <<encKey, disk, savePc, saveBuf, saveArg>>

\* FastSetup: configManager.Save(configManager.GetConfig()) up to the opening
\* of the file
FastSetupSave ==
    /\ wPc = "fastadded"
    /\ SaveOpen(cmConfig)
    /\ wPc' = "fastsave"
    /\ UNCHANGED <<wOps, wPlaced, wErr>>

\* Save has returned to saveAndExit or FastSetup, which return its error
\* and end the process
ProcessExits ==
    /\ wPc \in {"wizsave", "fastsave", "fastfailed"}
    /\ savePc = "idle"
    /\ wPc' = "none"
    /\ wErr' = ""
    /\ ManagerGone
    /\ UNCHANGED <<wOps, wPlaced, encKey, disk, savePc, saveBuf, saveArg, lastOp>>

WizardIdle ==
    /\ wPc = "off"
    /\ wOps = 0
    /\ wPlaced = [by |-> "", id |-> ""]
    /\ wErr = ""

\* no wizard and no fast setup is running yet
WizardInit ==
    /\ wPc = "none"
    /\ wOps = 0
    /\ wPlaced = [by |-> "", id |-> ""]
    /\ wErr = ""

(***************************************************************************)
(* config.RotateEncryptionKey.  The key file and its backup are files next *)
(* to each other; every file operation of the function is one step, so     *)
(* that the process can be killed between any two of them.  A file         *)
(* operation fails where the code has a branch for its failure; the calls  *)
(* whose result the code discards (the restoring copyFile, the final       *)
(* os.Remove) are modelled by their effect.                                *)
(***************************************************************************)
RotateIdle ==
    /\ keyFile = 0
    /\ backupFile = 0
    /\ rPc = "off"
    /\ rConfig = createDefaultConfig
    /\ rErr = ""

\* the configurations a completed Save can have left in the file
RotateConfigs ==
    {[DefaultProvider |-> dp, Providers |-> [id \in DOMAIN ps |-> ps[id]]] :
        dp \in {"", "anthropic"},
        ps \in {[id \in S |-> CHOOSE p \in ProviderInputs : p.ID = id /\ p.APIKey \in {"", v}] :
                   S \in SUBSET {"anthropic", "bedrock"}, v \in NonEmptyValues}}

\* a machine on which the key file exists, a manager was made on it
\* (NewConfigManager) and the configuration file, if there is one, was
\* written by a completed Save under that key
RotateInit ==
    /\ keyFile \in Keys
    /\ encKey = keyFile
    /\ backupFile = 0
    /\ rPc = "start"
    /\ rConfig = createDefaultConfig
    /\ rErr = ""
    /\ cmOrigin = "none"
    /\ cmConfig = createDefaultConfig
    /\ \/ disk = [exists |-> FALSE, content |-> <<>>]
       \/ \E config \in RotateConfigs, n \in NonceIds :
             /\ config.DefaultProvider \in {""} \cup DOMAIN config.Providers
             /\ disk = [exists |-> TRUE,
                        content |-> Marshal(EncryptProviders(
                            keyFile, config, [id \in DOMAIN config.Providers |-> n],
                            TRUE).val)]
    /\ savePc = "idle"
    /\ saveBuf = <<>>
    /\ saveArg = createDefaultConfig
    /\ lastOp = [op |-> "", err |-> ""]

\* config, err := configManager.Load()
RotateLoad ==
    /\ rPc = "start"
    /\ Load
    /\ IF lastOp'.err # ""
       THEN /\ rPc' = "failed"
            /\ rErr' = "failed to load config with old key"
            /\ UNCHANGED rConfig
       ELSE /\ rPc' = "loaded"
            /\ rConfig' = cmConfig'
            /\ UNCHANGED rErr
    /\ UNCHANGED <<keyFile, backupFile>>

\* copyFile(keyPath, backupKeyPath)
RotateBackup ==
    /\ rPc = "loaded"
    /\ \E readOk \in BOOLEAN, writeOk \in BOOLEAN :
          IF readOk /\ writeOk
          THEN /\ backupFile' = keyFile
               /\ rPc' = "backedup"
               /\ UNCHANGED rErr
          ELSE /\ rPc' = "failed"
               /\ rErr' = "failed to backup encryption key"
               /\ UNCHANGED backupFile
    /\ UNCHANGED <<keyFile, rConfig, storeVars>>

\* os.Remove(keyPath)
RotateRemoveKey ==
    /\ rPc = "backedup"
    /\ \E removeOk \in BOOLEAN :
          IF removeOk
          THEN /\ keyFile' = 0
               /\ rPc' = "removed"
               /\ UNCHANGED rErr
          ELSE /\ rPc' = "failed"
               /\ rErr' = "failed to remove old key"
               /\ UNCHANGED keyFile
    /\ UNCHANGED <<backupFile, rConfig, storeVars>>

RotateNewEncryptor_KeepsOldEncryptor ==
    /\ rPc = "removed"
    /\ \E key \in Keys, randOk \in BOOLEAN, mkdirOk \in BOOLEAN, writeOk \in BOOLEAN :
          IF randOk /\ mkdirOk /\ writeOk
          THEN /\ keyFile' = key
               /\ encKey' = encKey
               /\ rPc' = "newkey"
               /\ UNCHANGED rErr
          ELSE /\ keyFile' = backupFile
               /\ rPc' = "failed"
               /\ rErr' = "failed to create new encryptor"
               /\ UNCHANGED encKey
    /\ UNCHANGED <<backupFile, rConfig, cmOrigin, cmConfig, disk, savePc, saveBuf,
                   saveArg, lastOp>>

\* NewConfigEncryptor (getOrCreateEncryptionKey finds no key file, draws a
\* key and writes it) and configManager.encryptor = newEncryptor; on failure
\* copyFile(backupKeyPath, keyPath) and the error
RotateNewEncryptor ==
    /\ rPc = "removed"
    /\ \E key \in Keys, randOk \in BOOLEAN, mkdirOk \in BOOLEAN, writeOk \in BOOLEAN :
          IF randOk /\ mkdirOk /\ writeOk
          THEN /\ keyFile' = key
               /\ encKey' = key
               /\ rPc' = "newkey"
               /\ UNCHANGED rErr
          ELSE /\ keyFile' = backupFile
               /\ rPc' = "failed"
               /\ rErr' = "failed to create new encryptor"
               /\ UNCHANGED encKey
    /\ UNCHANGED <<backupFile, rConfig, cmOrigin, cmConfig, disk, savePc, saveBuf,
                   saveArg, lastOp>>

\* configManager.Save(config) up to the opening of the file
RotateSave ==
    /\ rPc = "newkey"
    /\ SaveOpen(rConfig)
    /\ rPc' = "saving"
    /\ UNCHANGED <<keyFile, backupFile, rConfig, rErr>>

\* Save has returned: os.Remove(backupKeyPath) and nil, or
\* copyFile(backupKeyPath, keyPath) and the error
RotateSaveReturned ==
    /\ rPc = "saving"
    /\ savePc = "idle"
    /\ IF lastOp.err = ""
       THEN /\ backupFile' = 0
            /\ rPc' = "done"
            /\ UNCHANGED <<keyFile, rErr>>
       ELSE /\ keyFile' = backupFile
            /\ rPc' = "failed"
            /\ rErr' = "failed to save config with new key"
            /\ UNCHANGED backupFile
    /\ UNCHANGED <<rConfig, storeVars>>

\* the process is killed between two file operations of the rotation
RotateCrash ==
    /\ rPc \in {"loaded", "backedup", "removed", "newkey", "saving"}
    /\ rPc' = "crashed"
    /\ savePc' = "idle"
    /\ UNCHANGED <<keyFile, backupFile, rConfig, rErr,
                   cmOrigin, cmConfig, encKey, disk, saveBuf, saveArg, lastOp>>

(***************************************************************************)
(* config.ProviderRegistry: its lookups, and a caller that makes one of    *)
(* them for an id.                                                         *)
(***************************************************************************)
NoDefinition ==
    [ID |-> "", Name |-> "", RequiredFields |-> <<>>, OptionalFields |-> <<>>,
     HasDynamicModels |-> FALSE, SupportsModelListing |-> FALSE,
     Models |-> NoModels, DefaultModelID |-> ""]

\* GetProviderDefinition; val is NoDefinition where the code returns nil
GetProviderDefinition(providerID) ==
    IF providerID \in CatalogIds
    THEN [val |-> Catalog[providerID], err |-> ""]
    ELSE [val |-> NoDefinition, err |-> "provider " \o providerID \o " not found"]

\* GetRequiredFields
GetRequiredFields(providerID) ==
    LET def == GetProviderDefinition(providerID)
    IN  IF def.err # "" THEN [val |-> <<>>, err |-> def.err]
        ELSE [val |-> def.val.RequiredFields, err |-> ""]

\* GetOptionalFields
GetOptionalFields(providerID) ==
    LET def == GetProviderDefinition(providerID)
    IN  IF def.err # "" THEN [val |-> <<>>, err |-> def.err]
        ELSE [val |-> def.val.OptionalFields, err |-> ""]

GetProviderModels_EmptyForUnknown(providerID) ==
    LET def == GetProviderDefinition(providerID)
    IN  [val |-> def.val.Models, err |-> ""]

\* GetProviderModels
GetProviderModels(providerID) ==
    LET def == GetProviderDefinition(providerID)
    IN  IF def.err # "" THEN [val |-> NoModels, err |-> def.err]
        ELSE [val |-> def.val.Models, err |-> ""]

\* GetDefaultModel
GetDefaultModel(providerID) ==
    LET def == GetProviderDefinition(providerID)
    IN  IF def.err # "" THEN [val |-> "", err |-> def.err]
        ELSE [val |-> def.val.DefaultModelID, err |-> ""]

\* every model id of the catalog, in the order sort.Strings gives
ModelOrder ==
    <<"anthropic.claude-3-5-sonnet-20241022-v2:0", "anthropic/claude-3.5-sonnet",
      "claude-3-5-haiku-20241022", "claude-sonnet-4-5-20250929",
      "llama-3.3-70b-versatile">>

Capabilities == {"images", "prompt_cache", "large_context", "free", "vision"}

\* the switch of GetModelsByCapability for one model
HasCapability(modelInfo, capability) ==
    CASE capability = "images"        -> modelInfo.SupportsImages
      [] capability = "prompt_cache"  -> modelInfo.SupportsPromptCache
      [] capability = "large_context" -> modelInfo.ContextWindow >= 100000
      [] capability = "free"          -> modelInfo.InputPrice = 0 /\ modelInfo.OutputPrice = 0
      [] OTHER                        -> FALSE

\* GetModelsByCapability
GetModelsByCapability(providerID, capability) ==
    LET models == GetProviderModels(providerID)
    IN  IF models.err # "" THEN [val |-> <<>>, err |-> models.err]
        ELSE [val |-> SelectSeq(ModelOrder,
                         LAMBDA modelID : /\ modelID \in DOMAIN models.val
                                          /\ HasCapability(models.val[modelID], capability)),
              err |-> ""]

RegistryIds == CatalogIds \cup {"", "nosuch", "OpenRouter", " anthropic "}

NoArg == [capability |-> "", config |-> NewProviderConfig("", "")]

\* the ProviderConfigs a caller validates for an id
RegistryConfigs(providerID) ==
    {[NewProviderConfig(providerID, "Name") EXCEPT !.APIKey = k, !.ModelID = m] :
        k \in {"", "sk-1"}, m \in {"", "my-model", "claude-3-5-haiku-20241022"}}

RegistryIdle ==
    /\ gPc = "off"
    /\ gId = ""
    /\ gOp = ""
    /\ gArg = NoArg
    /\ gRet = [val |-> "", err |-> ""]

RegistryInit ==
    /\ gPc = "start"
    /\ gId \in RegistryIds
    /\ gOp = ""
    /\ gArg = NoArg
    /\ gRet = [val |-> "", err |-> ""]

Returned(op, arg, ret) ==
    /\ gPc = "start"
    /\ gPc' = "returned"
    /\ gOp' = op
    /\ gArg' = arg
    /\ gRet' = ret
    /\ UNCHANGED gId

CallGetProviderDefinition ==
    Returned("GetProviderDefinition", NoArg, GetProviderDefinition(gId))

CallGetRequiredFields ==
    Returned("GetRequiredFields", NoArg, GetRequiredFields(gId))

CallGetOptionalFields ==
    Returned("GetOptionalFields", NoArg, GetOptionalFields(gId))

CallGetProviderModels ==
    Returned("GetProviderModels", NoArg, GetProviderModels(gId))

CallGetDefaultModel ==
    Returned("GetDefaultModel", NoArg, GetDefaultModel(gId))

CallGetModelsByCapability ==
    \E capability \in Capabilities :
        Returned("GetModelsByCapability", [NoArg EXCEPT !.capability = capability],
                 GetModelsByCapability(gId, capability))

CallValidateProviderConfig ==
    \E config \in RegistryConfigs(gId) :
        Returned("ValidateProviderConfig", [NoArg EXCEPT !.config = config],
                 [val |-> "", err |-> ValidateProviderConfig(config)])

(***************************************************************************)
(* ProviderWizard.testProviders, run from the menu of a wizard that has    *)
(* loaded a configuration file.                                            *)
(***************************************************************************)
TestIdle ==
    /\ tPc = "off"
    /\ tReport = EmptyMap

AwsKeys == [k \in {"aws_access_key", "aws_secret_key", "aws_region"} |-> "x"]

\* the entries a configuration file can hold for a provider
TestEntries(id) ==
    {[ID |-> id, Name |-> Catalog[id].Name, APIKey |-> k, BaseURL |-> b,
      ModelID |-> m, ExtraConfig |-> e] :
        k \in {"", "sk-1"}, b \in {"", "http://localhost:11434"},
        m \in {"", Catalog[id].DefaultModelID, "my-model"},
        e \in {EmptyMap, AwsKeys}}

\* the wizard is at its menu, Load has returned the configuration of the file
TestInit ==
    /\ tPc = "menu"
    /\ tReport = EmptyMap
    /\ encKey = 1
    /\ cmOrigin = "file"
    /\ \E id \in CatalogIds : \E entry \in TestEntries(id) :
          /\ cmConfig = [DefaultProvider |-> "", Providers |-> [x \in {id} |-> entry]]
          /\ disk = [exists |-> TRUE,
                     content |-> Marshal(EncryptProviders(
                         encKey, cmConfig, [x \in {id} |-> 1], TRUE).val)]
    /\ savePc = "idle"
    /\ saveBuf = <<>>
    /\ saveArg = createDefaultConfig
    /\ lastOp = [op |-> "Load", err |-> ""]

\* menu choice "test": testProviders
testProviders ==
    /\ tPc = "menu"
    /\ tReport' = [id \in DOMAIN cmConfig.Providers |->
                      ValidateProviderConfig(cmConfig.Providers[id])]
    /\ tPc' = "tested"
    /\ UNCHANGED storeVars

\* back in the menu loop
TestDone ==
    /\ tPc = "tested"
    /\ tPc' = "menu"
    /\ UNCHANGED <<tReport, storeVars>>

(***************************************************************************)
(* The paginated model list of the wizard: FormatModelList, PaginateModels,*)
(* FindModelByNumberOrID and the prompt loop of showModelList.             *)
(***************************************************************************)
ListIdle ==
    /\ lPc = "off"
    /\ lModels = EmptyMap
    /\ lOptions = <<>>
    /\ lPages = <<>>
    /\ lPage = 0
    /\ lInput = ""
    /\ lSel = ""

\* ---- strings --------------------------------------------------------------
Char(s, i) == SubSeq(s, i, i)

UpperChars == "ABCDEFGHIJKLMNOPQRSTUVWXYZ"
LowerChars == "abcdefghijklmnopqrstuvwxyz"

LowerChar(c) ==
    IF \E i \in 1..Len(UpperChars) : Char(UpperChars, i) = c
    THEN Char(LowerChars, CHOOSE i \in 1..Len(UpperChars) : Char(UpperChars, i) = c)
    ELSE c

RECURSIVE ToLower(_)
ToLower(s) == IF s = "" THEN "" ELSE LowerChar(Head(s)) \o ToLower(Tail(s))

Contains(s, substr) ==
    \E i \in 1..(Len(s) - Len(substr) + 1) : SubSeq(s, i, i + Len(substr) - 1) = substr

RECURSIVE TrimLeft(_)
TrimLeft(s) == IF s # "" /\ Head(s) = " " THEN TrimLeft(Tail(s)) ELSE s

RECURSIVE TrimRight(_)
TrimRight(s) ==
    IF s # "" /\ Char(s, Len(s)) = " " THEN TrimRight(SubSeq(s, 1, Len(s) - 1)) ELSE s

TrimSpace(s) == TrimRight(TrimLeft(s))

\* the characters of the model ids and inputs, in byte order
ByteOrder == " +-./0123456789:ABCDEFGHIJKLMNOPQRSTUVWXYZ_abcdefghijklmnopqrstuvwxyz"

Ord(c) == CHOOSE i \in 1..Len(ByteOrder) : Char(ByteOrder, i) = c

\* Go's < on strings
RECURSIVE StringLess(_, _)
StringLess(a, b) ==
    IF b = "" THEN FALSE
    ELSE IF a = "" THEN TRUE
    ELSE IF Head(a) = Head(b) THEN StringLess(Tail(a), Tail(b))
    ELSE Ord(Head(a)) < Ord(Head(b))

DecimalDigits == "0123456789"

DigitValue(c) == (CHOOSE i \in 1..Len(DecimalDigits) : Char(DecimalDigits, i) = c) - 1

RECURSIVE ParseDecimal(_)
ParseDecimal(tok) ==
    IF tok = "" THEN 0
    ELSE 10 * ParseDecimal(SubSeq(tok, 1, Len(tok) - 1)) + DigitValue(Char(tok, Len(tok)))

RECURSIVE Itoa(_)
Itoa(n) ==
    IF n < 10 THEN Char(DecimalDigits, n + 1)
    ELSE Itoa(n \div 10) \o Char(DecimalDigits, (n % 10) + 1)

\* fmt.Sscanf(input, "%d", &selectedNum): leading spaces are skipped, a sign
\* is accepted, then the longest run of digits and underscores is the token;
\* what follows the token is not read.  The token is handed to
\* strconv.ParseInt(tok, 10, 64), which rejects an empty token and underscores.
ScanToken(s) ==
    LET stops == {i \in 1..Len(s) : ~Contains(DecimalDigits \o "_", Char(s, i))}
    IN  IF stops = {} THEN s
        ELSE SubSeq(s, 1, (CHOOSE i \in stops : \A j \in stops : i <= j) - 1)

Sscanf(input) ==
    LET s       == TrimLeft(input)
        signed  == s # "" /\ Head(s) \in {"+", "-"}
        tok     == ScanToken(IF signed THEN Tail(s) ELSE s)
    IN  IF tok = "" \/ Contains(tok, "_")
        THEN [n |-> 0, err |-> "expected integer"]
        ELSE [n |-> IF signed /\ Head(s) = "-" THEN 0 - ParseDecimal(tok) ELSE ParseDecimal(tok),
              err |-> ""]

\* ---- FormatModelList -------------------------------------------------------
formatContextWindow(contextWindow) ==
    IF contextWindow = 0 THEN ""
    ELSE IF contextWindow >= 1000 THEN "(" \o Itoa(contextWindow \div 1000) \o "k context)"
    ELSE "(" \o Itoa(contextWindow) \o " context)"

FormatModelOption(modelID, info) == modelID \o " " \o formatContextWindow(info.ContextWindow)

getModelPriority(modelID) ==
    LET modelLower == ToLower(modelID)
    IN  IF Contains(modelLower, "claude-sonnet-4") \/ Contains(modelLower, "claude-4") THEN 1
        ELSE IF Contains(modelLower, "gpt-4o") THEN 1
        ELSE IF Contains(modelLower, "claude-3.7") \/ Contains(modelLower, "claude-3-7") THEN 2
        ELSE IF Contains(modelLower, "claude-3.5") \/ Contains(modelLower, "claude-3-5") THEN 3
        ELSE IF Contains(modelLower, "claude") THEN 4
        ELSE IF Contains(modelLower, "gpt-4") THEN 5
        ELSE IF Contains(modelLower, "gpt-3.5") THEN 6
        ELSE IF Contains(modelLower, "gpt") THEN 7
        ELSE IF Contains(modelLower, "llama-3.3") \/ Contains(modelLower, "llama3.3") THEN 8
        ELSE IF Contains(modelLower, "llama-3") \/ Contains(modelLower, "llama3") THEN 9
        ELSE IF Contains(modelLower, "mixtral") THEN 10
        ELSE IF Contains(modelLower, "qwen") THEN 11
        ELSE IF Contains(modelLower, "deepseek") THEN 12
        ELSE 100

\* the less function SortModelOptions gives to sort.Slice
OptionLess(a, b, models) ==
    IF getModelPriority(a) # getModelPriority(b)
    THEN getModelPriority(a) < getModelPriority(b)
    ELSE IF models[a].ContextWindow # models[b].ContextWindow
    THEN models[a].ContextWindow > models[b].ContextWindow
    ELSE StringLess(a, b)

\* OptionLess is a strict total order on distinct ids, so the sorted slice
\* does not depend on the order in which the map was ranged over
RECURSIVE SortModelOptions(_, _)
SortModelOptions(ids, models) ==
    IF ids = {} THEN <<>>
    ELSE LET first == CHOOSE a \in ids : \A b \in ids \ {a} : OptionLess(a, b, models)
         IN  <<first>> \o SortModelOptions(ids \ {first}, models)

FormatModelList(models) ==
    LET sorted == SortModelOptions(DOMAIN models, models)
    IN  [i \in 1..Len(sorted) |->
            [Number      |-> i,
             ModelID     |-> sorted[i],
             DisplayText |-> FormatModelOption(sorted[i], models[sorted[i]])]]

\* ---- PaginateModels --------------------------------------------------------
pageSize == 15

Min(a, b) == IF a < b THEN a ELSE b

RECURSIVE PagesFrom(_, _, _)
PagesFrom(options, i, size) ==
    IF i >= Len(options) THEN <<>>
    ELSE <<SubSeq(options, i + 1, Min(i + size, Len(options)))>>
             \o PagesFrom(options, i + size, size)

PaginateModels(options, size) == PagesFrom(options, 0, IF size <= 0 THEN 15 ELSE size)

\* ---- FindModelByNumberOrID -------------------------------------------------
\* the first option among those at the positions hits
FirstOf(options, hits) ==
    IF hits = {} THEN [id |-> "", found |-> FALSE]
    ELSE [id |-> options[CHOOSE i \in hits : \A j \in hits : i <= j].ModelID,
          found |-> TRUE]

FindModelByNumberOrID(input, options) ==
    LET scanned   == Sscanf(input)
        positions == 1..Len(options)
        byNumber  == {i \in positions : options[i].Number = scanned.n}
        byID      == {i \in positions : options[i].ModelID = input}
        byLowerID == {i \in positions : ToLower(options[i].ModelID) = ToLower(input)}
    IN  IF scanned.err = "" THEN FirstOf(options, byNumber)
        ELSE IF byID # {} THEN FirstOf(options, byID)
        ELSE FirstOf(options, byLowerID)

\* ---- harness ---------------------------------------------------------------
Info(contextWindow) == [ContextWindow |-> contextWindow]

NamedModels ==
    [id \in {"gpt-4o", "claude-3-5-sonnet", "01-ai/yi-large", "Llama-3.3-70B"} |->
        IF id = "claude-3-5-sonnet" THEN Info(200000)
        ELSE IF id = "01-ai/yi-large" THEN Info(32000)
        ELSE Info(128000)]

FillerId(i) == "model-" \o Itoa(i \div 10) \o Itoa(i % 10)

\* the named models and n more, of context window 0 (unknown) or 8192
ModelMapOf(n) ==
    [id \in DOMAIN NamedModels \cup {FillerId(i) : i \in 1..n} |->
        IF id \in DOMAIN NamedModels THEN NamedModels[id]
        ELSE IF Char(id, Len(id)) \in {"0", "5"} THEN Info(8192) ELSE Info(0)]

\* lists of one page, of two pages (the last one short or full) and of three
FillerCounts == {0, 12, 26, 27}

ModelMaps == {ModelMapOf(n) : n \in FillerCounts}

Selections ==
    {"next", "n", "NEXT", " next ", "back", "prev", "previous", "b", "Back",
     "1", "2", "15", "16", "31", "0", "-1", "99", "+3", "",
     "gpt-4o", "GPT-4O", "01-ai/yi-large", "model-07", "model-27", "no-such-model"}

ListInit ==
    /\ lPc = "prompt"
    /\ lModels \in ModelMaps
    /\ lOptions = FormatModelList(lModels)
    /\ lPages = PaginateModels(lOptions, pageSize)
    /\ lPage = 0
    /\ lInput = ""
    /\ lSel = ""

\* one turn of the loop of showModelList: the page is shown, the user answers
ListPrompt ==
    /\ lPc = "prompt"
    /\ lPage < Len(lPages)
    /\ \E answer \in Selections :
          LET selection == TrimSpace(answer)
              result    == FindModelByNumberOrID(selection, lOptions)
          IN  /\ lInput' = answer
              /\ IF ToLower(selection) \in {"next", "n"}
                 THEN /\ lPage' = IF lPage < Len(lPages) - 1 THEN lPage + 1 ELSE lPage
                      /\ UNCHANGED <<lPc, lSel>>
                 ELSE IF ToLower(selection) \in {"back", "prev", "b"}
                 THEN /\ lPage' = IF lPage > 0 THEN lPage - 1 ELSE lPage
                      /\ UNCHANGED <<lPc, lSel>>
                 ELSE IF ~result.found
                 THEN UNCHANGED <<lPc, lPage, lSel>>
                 ELSE /\ lSel' = result.id
                      /\ lPc' = "selected"
                      /\ UNCHANGED lPage
    /\ UNCHANGED <<lModels, lOptions, lPages>>

\* survey.AskOne returns an error (the prompt is interrupted)
ListPromptFails ==
    /\ lPc = "prompt"
    /\ lPage < Len(lPages)
    /\ lPc' = "failed"
    /\ UNCHANGED <<lModels, lOptions, lPages, lPage, lInput, lSel>>

(***************************************************************************)
(* Specifications.                                                         *)
(***************************************************************************)
InitMapper == MapInit /\ CryptoIdle /\ StoreIdle /\ FetchIdle /\ WizardIdle /\ RotateIdle /\ RegistryIdle /\ TestIdle /\ ListIdle
NextMapper ==
    \/ MapperMap /\ UNCHANGED <<cryptoVars, storeVars, fetchVars, wizardVars, rotateVars, registryVars, testVars, listVars>>
    \/ MapperValidate /\ UNCHANGED <<cryptoVars, storeVars, fetchVars, wizardVars, rotateVars, registryVars, testVars, listVars>>
SpecMapper == InitMapper /\ [][NextMapper]_vars

InitCrypto == CryptoInit /\ MapIdle /\ StoreIdle /\ FetchIdle /\ WizardIdle /\ RotateIdle /\ RegistryIdle /\ TestIdle /\ ListIdle
NextCrypto ==
    \/ CryptoEncrypt /\ UNCHANGED <<mapVars, storeVars, fetchVars, wizardVars, rotateVars, registryVars, testVars, listVars>>
    \/ CryptoDecrypt /\ UNCHANGED <<mapVars, storeVars, fetchVars, wizardVars, rotateVars, registryVars, testVars, listVars>>
    \/ CryptoDecryptEncrypted /\ UNCHANGED <<mapVars, storeVars, fetchVars, wizardVars, rotateVars, registryVars, testVars, listVars>>
    \/ CryptoDecryptOtherKey /\ UNCHANGED <<mapVars, storeVars, fetchVars, wizardVars, rotateVars, registryVars, testVars, listVars>>
SpecCrypto == InitCrypto /\ [][NextCrypto]_vars

InitStore == StoreInit /\ MapIdle /\ CryptoIdle /\ FetchIdle /\ WizardIdle /\ RotateIdle /\ RegistryIdle /\ TestIdle /\ ListIdle
NextStore ==
    \/ Load /\ UNCHANGED <<mapVars, cryptoVars, fetchVars, wizardVars, rotateVars, registryVars, testVars, listVars>>
    \/ Save /\ UNCHANGED <<mapVars, cryptoVars, fetchVars, wizardVars, rotateVars, registryVars, testVars, listVars>>
    \/ SaveWrite /\ UNCHANGED <<mapVars, cryptoVars, fetchVars, wizardVars, rotateVars, registryVars, testVars, listVars>>
    \/ SaveWriteFails /\ UNCHANGED <<mapVars, cryptoVars, fetchVars, wizardVars, rotateVars, registryVars, testVars, listVars>>
    \/ SaveReturn /\ UNCHANGED <<mapVars, cryptoVars, fetchVars, wizardVars, rotateVars, registryVars, testVars, listVars>>
    \/ (\E p \in ProviderInputs : AddProvider(p)) /\ UNCHANGED <<mapVars, cryptoVars, fetchVars, wizardVars, rotateVars, registryVars, testVars, listVars>>
    \/ (\E id \in StoreIds : RemoveProvider(id)) /\ UNCHANGED <<mapVars, cryptoVars, fetchVars, wizardVars, rotateVars, registryVars, testVars, listVars>>
    \/ (\E id \in StoreIds : SetDefaultProvider(id)) /\ UNCHANGED <<mapVars, cryptoVars, fetchVars, wizardVars, rotateVars, registryVars, testVars, listVars>>
    \/ NewConfigManager /\ UNCHANGED <<mapVars, cryptoVars, fetchVars, wizardVars, rotateVars, registryVars, testVars, listVars>>
SpecStore == InitStore /\ [][NextStore]_vars

InitFetch == FetchInit /\ MapIdle /\ CryptoIdle /\ StoreIdle /\ WizardIdle /\ RotateIdle /\ RegistryIdle /\ TestIdle /\ ListIdle
NextFetch ==
    \/ FetchModelsForProvider /\ UNCHANGED <<mapVars, cryptoVars, storeVars, wizardVars, rotateVars, registryVars, testVars, listVars>>
    \/ FetcherFinishes /\ UNCHANGED <<mapVars, cryptoVars, storeVars, wizardVars, rotateVars, registryVars, testVars, listVars>>
    \/ DeadlineFires /\ UNCHANGED <<mapVars, cryptoVars, storeVars, wizardVars, rotateVars, registryVars, testVars, listVars>>
    \/ SelectDone /\ UNCHANGED <<mapVars, cryptoVars, storeVars, wizardVars, rotateVars, registryVars, testVars, listVars>>
    \/ SelectResult /\ UNCHANGED <<mapVars, cryptoVars, storeVars, wizardVars, rotateVars, registryVars, testVars, listVars>>
SpecFetch == InitFetch /\ [][NextFetch]_vars

\* The Go scheduler runs the goroutine, whose HTTP client gives up after
\* httpTimeout; the context's timer fires; a select with a ready case takes it.
FetchFairness ==
    /\ WF_fetchVars(FetchModelsForProvider)
    /\ WF_fetchVars(FetcherFinishes)
    /\ WF_fetchVars(DeadlineFires)
    /\ WF_fetchVars(SelectDone)
    /\ WF_fetchVars(SelectResult)
SpecFetchLive == InitFetch /\ [][NextFetch]_vars /\ FetchFairness

\* the wizard and fast setup, run one after the other on one machine
InitWizard ==
    /\ WizardInit /\ StoreInit /\ encKey = 1
    /\ MapIdle /\ CryptoIdle /\ FetchIdle /\ RotateIdle /\ RegistryIdle /\ TestIdle
    /\ ListIdle
NextWizard ==
    \/ WizardRun /\ UNCHANGED <<mapVars, cryptoVars, fetchVars, rotateVars, registryVars, testVars, listVars>>
    \/ WizardAdd /\ UNCHANGED <<mapVars, cryptoVars, fetchVars, rotateVars, registryVars, testVars, listVars>>
    \/ WizardContinue /\ UNCHANGED <<mapVars, cryptoVars, fetchVars, rotateVars, registryVars, testVars, listVars>>
    \/ WizardRemove /\ UNCHANGED <<mapVars, cryptoVars, fetchVars, rotateVars, registryVars, testVars, listVars>>
    \/ WizardSetDefault /\ UNCHANGED <<mapVars, cryptoVars, fetchVars, rotateVars, registryVars, testVars, listVars>>
    \/ WizardExit /\ UNCHANGED <<mapVars, cryptoVars, fetchVars, rotateVars, registryVars, testVars, listVars>>
    \/ WizardSaveAndExit /\ UNCHANGED <<mapVars, cryptoVars, fetchVars, rotateVars, registryVars, testVars, listVars>>
    \/ FastSetup /\ UNCHANGED <<mapVars, cryptoVars, fetchVars, rotateVars, registryVars, testVars, listVars>>
    \/ FastSetupSave /\ UNCHANGED <<mapVars, cryptoVars, fetchVars, rotateVars, registryVars, testVars, listVars>>
    \/ SaveWrite /\ UNCHANGED <<mapVars, cryptoVars, fetchVars, wizardVars, rotateVars, registryVars, testVars, listVars>>
    \/ SaveWriteFails /\ UNCHANGED <<mapVars, cryptoVars, fetchVars, wizardVars, rotateVars, registryVars, testVars, listVars>>
    \/ SaveReturn /\ UNCHANGED <<mapVars, cryptoVars, fetchVars, wizardVars, rotateVars, registryVars, testVars, listVars>>
    \/ ProcessExits /\ UNCHANGED <<mapVars, cryptoVars, fetchVars, rotateVars, registryVars, testVars, listVars>>
SpecWizard == InitWizard /\ [][NextWizard]_vars

\* one key rotation on a machine with a saved configuration
InitRotate == RotateInit /\ MapIdle /\ CryptoIdle /\ FetchIdle /\ WizardIdle /\ RegistryIdle /\ TestIdle /\ ListIdle
NextRotate ==
    \/ RotateLoad /\ UNCHANGED <<mapVars, cryptoVars, fetchVars, wizardVars, registryVars, testVars, listVars>>
    \/ RotateBackup /\ UNCHANGED <<mapVars, cryptoVars, fetchVars, wizardVars, registryVars, testVars, listVars>>
    \/ RotateRemoveKey /\ UNCHANGED <<mapVars, cryptoVars, fetchVars, wizardVars, registryVars, testVars, listVars>>
    \/ RotateNewEncryptor /\ UNCHANGED <<mapVars, cryptoVars, fetchVars, wizardVars, registryVars, testVars, listVars>>
    \/ RotateSave /\ UNCHANGED <<mapVars, cryptoVars, fetchVars, wizardVars, registryVars, testVars, listVars>>
    \/ (rPc = "saving" /\ SaveWrite) /\ UNCHANGED <<mapVars, cryptoVars, fetchVars, wizardVars, rotateVars, registryVars, testVars, listVars>>
    \/ (rPc = "saving" /\ SaveWriteFails) /\ UNCHANGED <<mapVars, cryptoVars, fetchVars, wizardVars, rotateVars, registryVars, testVars, listVars>>
    \/ (rPc = "saving" /\ SaveReturn) /\ UNCHANGED <<mapVars, cryptoVars, fetchVars, wizardVars, rotateVars, registryVars, testVars, listVars>>
    \/ RotateSaveReturned /\ UNCHANGED <<mapVars, cryptoVars, fetchVars, wizardVars, registryVars, testVars, listVars>>
    \/ RotateCrash /\ UNCHANGED <<mapVars, cryptoVars, fetchVars, wizardVars, registryVars, testVars, listVars>>
SpecRotate == InitRotate /\ [][NextRotate]_vars

\* one registry lookup for one id
InitRegistry ==
    /\ RegistryInit /\ MapIdle /\ CryptoIdle /\ StoreIdle /\ FetchIdle
    /\ WizardIdle /\ RotateIdle /\ TestIdle /\ ListIdle
NextRegistry ==
    \/ CallGetProviderDefinition
          /\ UNCHANGED <<mapVars, cryptoVars, storeVars, fetchVars, wizardVars, rotateVars, testVars, listVars>>
    \/ CallGetRequiredFields
          /\ UNCHANGED <<mapVars, cryptoVars, storeVars, fetchVars, wizardVars, rotateVars, testVars, listVars>>
    \/ CallGetOptionalFields
          /\ UNCHANGED <<mapVars, cryptoVars, storeVars, fetchVars, wizardVars, rotateVars, testVars, listVars>>
    \/ CallGetProviderModels
          /\ UNCHANGED <<mapVars, cryptoVars, storeVars, fetchVars, wizardVars, rotateVars, testVars, listVars>>
    \/ CallGetDefaultModel
          /\ UNCHANGED <<mapVars, cryptoVars, storeVars, fetchVars, wizardVars, rotateVars, testVars, listVars>>
    \/ CallGetModelsByCapability
          /\ UNCHANGED <<mapVars, cryptoVars, storeVars, fetchVars, wizardVars, rotateVars, testVars, listVars>>
    \/ CallValidateProviderConfig
          /\ UNCHANGED <<mapVars, cryptoVars, storeVars, fetchVars, wizardVars, rotateVars, testVars, listVars>>
SpecRegistry == InitRegistry /\ [][NextRegistry]_vars

\* the test action of a wizard on a loaded configuration
InitTest ==
    /\ TestInit /\ MapIdle /\ CryptoIdle /\ FetchIdle
    /\ WizardIdle /\ RotateIdle /\ RegistryIdle /\ ListIdle
NextTest ==
    \/ testProviders
          /\ UNCHANGED <<mapVars, cryptoVars, fetchVars, wizardVars, rotateVars, registryVars, listVars>>
    \/ TestDone
          /\ UNCHANGED <<mapVars, cryptoVars, fetchVars, wizardVars, rotateVars, registryVars, listVars>>
SpecTest == InitTest /\ [][NextTest]_vars


InitList ==
    /\ ListInit /\ MapIdle /\ CryptoIdle /\ StoreIdle /\ FetchIdle
    /\ WizardIdle /\ RotateIdle /\ RegistryIdle /\ TestIdle
NextList ==
    \/ ListPrompt
          /\ UNCHANGED <<mapVars, cryptoVars, storeVars, fetchVars, wizardVars, rotateVars, registryVars, testVars>>
    \/ ListPromptFails
          /\ UNCHANGED <<mapVars, cryptoVars, storeVars, fetchVars, wizardVars, rotateVars, registryVars, testVars>>
SpecList == InitList /\ [][NextList]_vars

(***************************************************************************)
(* C2.  Every provider entry that the wizard's add action or fast setup    *)
(* places in the store has, for every required field of its catalog        *)
(* definition, a non-empty value in the slot MapFieldToConfig writes for   *)
(* that field name.                                                        *)
(***************************************************************************)
RequiredSlotsFilled(p) ==
    /\ p.ID \in CatalogIds
    /\ \A i \in 1..Len(Catalog[p.ID].RequiredFields) :
          SlotValue(Catalog[p.ID].RequiredFields[i], p) # ""

C2_RequiredSlotsNonEmpty ==
    wPc # "off" =>
        \A id \in DOMAIN cmConfig.Providers : RequiredSlotsFilled(cmConfig.Providers[id])

C2_Witness ==
    /\ wPc = "fastsave"
    /\ wPlaced = [by |-> "FastSetup", id |-> "openrouter"]
    /\ {"anthropic", "openrouter"} \subseteq DOMAIN cmConfig.Providers
    /\ cmConfig.Providers["openrouter"].APIKey # ""
    /\ cmConfig.Providers["anthropic"].APIKey # ""

(***************************************************************************)
(* C3.  The validator and the mapper agree on the destination slot of      *)
(* every field name: validating the single field n against c fails exactly *)
(* when the slot MapFieldToConfig writes for n is absent or empty in c.    *)
(***************************************************************************)
C3_ValidatorAgreesWithMapper ==
    mPc \in {"validated", "mapped_validated"} =>
        ((mErr # "") <=> (SlotValue(mField[1], mConfig) = ""))

(***************************************************************************)
(* C1.  Save replaces the configuration file atomically: whenever the file *)
(* an observer can read changes, it changes to the complete new document,  *)
(* so the observer sees the complete previous content or the complete new  *)
(* content and never a partially written file.                             *)
(***************************************************************************)
C1_SaveIsAtomic ==
    [][disk' # disk => disk' = [exists |-> TRUE, content |-> saveBuf']]_vars

(***************************************************************************)
(* C4.  In every state of a freshly created configuration reached through  *)
(* AddProvider, RemoveProvider and SetDefaultProvider, defaultProvider is  *)
(* empty or a key of providers; removing the default provider empties      *)
(* defaultProvider; a failing SetDefaultProvider leaves it unchanged.      *)
(***************************************************************************)
DefaultIsConfigured(config) ==
    config.DefaultProvider = "" \/ config.DefaultProvider \in DOMAIN config.Providers

C4_DefaultProviderInvariant ==
    [][/\ cmOrigin' = "fresh" => DefaultIsConfigured(cmConfig')
       /\ (/\ lastOp'.op = "RemoveProvider" /\ lastOp'.err = ""
           /\ cmConfig.DefaultProvider \in DOMAIN cmConfig.Providers
           /\ cmConfig.DefaultProvider \notin DOMAIN cmConfig'.Providers)
             => cmConfig'.DefaultProvider = ""
       /\ (lastOp'.op = "SetDefaultProvider" /\ lastOp'.err # "")
             => cmConfig'.DefaultProvider = cmConfig.DefaultProvider]_vars

C4_Witness ==
    /\ cmOrigin = "fresh"
    /\ lastOp.op = "RemoveProvider" /\ lastOp.err = ""
    /\ cmConfig.DefaultProvider = ""
    /\ DOMAIN cmConfig.Providers # {}

(***************************************************************************)
(* C5.  After a successful Save the file on disk parses and the            *)
(* configuration loaded from it passes ConfigManager.Validate.             *)
(***************************************************************************)
C5_SavedFileValidates ==
    (lastOp = [op |-> "Save", err |-> ""]) =>
        LET r == LoadFile(encKey, disk)
        IN  r.err = "" /\ ValidateErrors(r.val) = {}

(***************************************************************************)
(* C6.  Save then Load is a round trip with the secrets encrypted at rest: *)
(* in the file a completed Save wrote, every api_key of a provider with a  *)
(* non-empty key is a ciphertext of that key and not the key itself, and   *)
(* an empty key is stored empty; when Save returns the store still holds   *)
(* the plaintext configuration it was given; and a Load of that file       *)
(* yields the configuration that was saved.                                *)
(***************************************************************************)
FileIsSaved == savePc = "idle" /\ disk = [exists |-> TRUE, content |-> saveBuf]

C6_SaveLoadRoundTrip ==
    /\ FileIsSaved =>
          \A i \in 1..Len(disk.content) :
              disk.content[i].t = "provider" =>
                  LET plain  == saveArg.Providers[disk.content[i].key].APIKey
                      stored == disk.content[i].api_key
                  IN  IF plain = "" THEN stored = ""
                      ELSE /\ stored \notin Values
                           /\ DecryptAPIKey(encKey, stored) = [val |-> plain, err |-> ""]
    /\ lastOp = [op |-> "Save", err |-> ""] =>
          /\ cmConfig = saveArg
          /\ \A id \in DOMAIN cmConfig.Providers : cmConfig.Providers[id].APIKey \in Values
    /\ (lastOp = [op |-> "Load", err |-> ""] /\ FileIsSaved) => cmConfig = saveArg

C6_Witness ==
    /\ lastOp = [op |-> "Load", err |-> ""]
    /\ FileIsSaved
    /\ cmOrigin = "file"
    /\ \E id \in DOMAIN cmConfig.Providers : cmConfig.Providers[id].APIKey # ""
    /\ \E id \in DOMAIN cmConfig.Providers : cmConfig.Providers[id].APIKey = ""

(***************************************************************************)
(* C7.  Encryption round trip: decrypting what EncryptAPIKey returned for  *)
(* a non-empty string gives that string back; the empty string encrypts    *)
(* and decrypts to the empty string; DecryptAPIKey returns an error and no *)
(* plaintext on input that is not base64, is shorter than the nonce, or    *)
(* was sealed under another key.                                           *)
(***************************************************************************)
SealedUnderOtherKey(key) ==
    {EncodeToString(GcmSeal(NonceBytes(n), k, n, s)) :
         n \in NonceIds, k \in Keys \ {key}, s \in NonEmptyValues}

C7_EncryptionRoundTrip ==
    /\ (cPc = "roundtrip" /\ cIn # "") => cOut = [val |-> cIn, err |-> ""]
    /\ (cPc \in {"encrypted", "decrypted"} /\ cIn = "") => cOut = [val |-> "", err |-> ""]
    /\ (cPc = "encrypted" /\ cIn # "" /\ cOut.err = "") => cOut.val \notin {"", cIn}
    /\ (/\ cPc = "decrypted"
        /\ cIn \in {NotBase64, EncodeToString(ShortBytes)} \cup SealedUnderOtherKey(cKey))
          => (cOut.err # "" /\ cOut.val = "")
    /\ (cPc = "otherkey" /\ cIn # "") => (cOut.err # "" /\ cOut.val = "")

C7_Witness == cPc = "roundtrip" /\ cIn # "" /\ cOut.val = cIn

(***************************************************************************)
(* C8.  Fetch-fallback law: for a dynamic provider with a fetcher, when    *)
(* the live fetch ends in a timeout, an error or an empty result,          *)
(* FetchModelsForProvider returns exactly the built-in models of the       *)
(* definition with a non-nil error; when it ends in a non-empty map, that  *)
(* map is returned with a nil error.                                       *)
(***************************************************************************)
BuiltInModels(id) ==
    [m \in DOMAIN Catalog[id].Models |->
        [MaxTokens |-> Catalog[id].Models[m].MaxTokens,
         ContextWindow |-> Catalog[id].Models[m].ContextWindow,
         SupportsImages |-> Catalog[id].Models[m].SupportsImages]]

C8_FetchFallbackLaw ==
    (fPc = "returned" /\ fGo # "none") =>
        IF fSeen.err # "" \/ DOMAIN fSeen.models = {}
        THEN fRet.models = BuiltInModels(fDef) /\ fRet.err # ""
        ELSE fRet = [models |-> fSeen.models, err |-> ""]

C8_Witness ==
    /\ fPc = "returned" /\ fGo # "none"
    /\ fSeen.err = "" /\ DOMAIN fSeen.models = {}
    /\ fRet.err # "" /\ DOMAIN fRet.models # {}

(***************************************************************************)
(* C9.  For a definition with hasDynamicModels false, or an id other than  *)
(* openrouter, ollama, openai, openai-native and groq, no live fetch is    *)
(* ever started and FetchModelsForProvider returns the built-in models     *)
(* with a nil error, whatever api key and base url are passed.             *)
(***************************************************************************)
IdsWithFetcher == {"openrouter", "ollama", "openai", "openai-native", "groq"}

C9_NoFetchWithoutFetcher ==
    (fPc # "off" /\ (~Catalog[fDef].HasDynamicModels \/ fDef \notin IdsWithFetcher)) =>
        /\ fGo = "none"
        /\ fPc = "returned" => fRet = [models |-> BuiltInModels(fDef), err |-> ""]

C9_Witness ==
    /\ fPc = "returned" /\ fDef = "together" /\ fApiKey # "" /\ fBaseURL # ""
    /\ fGo = "none" /\ fRet.err = ""

(***************************************************************************)
(* C10.  A live fetch whose deadline expires is cancelled: once            *)
(* FetchModelsForProvider has returned the timeout error, the underlying   *)
(* HTTP fetch is no longer running.                                        *)
(***************************************************************************)
C10_TimeoutCancelsFetch ==
    (fPc = "returned" /\ fSeen.err = TimeoutError) => fGo # "running"

(***************************************************************************)
(* C11.  Fast setup changes the configuration file only as its last step,  *)
(* after every check succeeded: the step in which fast setup runs its      *)
(* checks, and the step in which it returns an error, leave the file as it *)
(* was, and the file changes during a fast setup only when the provider it *)
(* added has a key field and passes ValidateRequiredFields and             *)
(* ValidateProviderConfig.                                                 *)
(***************************************************************************)
FastSetupChecksPassed(p) ==
    /\ p.ID \in CatalogIds
    /\ \E i \in 1..Len(Catalog[p.ID].RequiredFields) :
          isAPIKeyField(Catalog[p.ID].RequiredFields[i])
    /\ ValidateRequiredFields(p.ID, p, Catalog[p.ID].RequiredFields) = ""
    /\ ValidateProviderConfig(p) = ""

C11_FastSetupWritesLast ==
    [][/\ (wPc \in {"none", "fastfailed"} \/ wPc' = "fastfailed") => disk' = disk
       /\ (wPc \in {"fastadded", "fastsave"} /\ disk' # disk) =>
             /\ wPlaced.by = "FastSetup"
             /\ wPlaced.id \in DOMAIN cmConfig.Providers
             /\ FastSetupChecksPassed(cmConfig.Providers[wPlaced.id])]_vars

C11_Witness ==
    /\ wPc = "fastfailed"
    /\ wErr = NoAPIKeyFieldError("ollama")
    /\ disk.exists
    /\ \E i \in 1..Len(disk.content) : disk.content[i].t = "provider"

(***************************************************************************)
(* C12: fast setup works for a catalog provider none of whose required     *)
(* fields is an api key field (bedrock, ollama): with or without a key     *)
(* argument it goes on to prompt for the required fields and ends with     *)
(* the provider added and saved; so no fast setup ever ends with the       *)
(* refusal "provider <id> does not have an API key field".                 *)
(***************************************************************************)
C12_FastSetupWithoutKeyField ==
    \A id \in CatalogIds :
        FirstAPIKeyField(Catalog[id]) = 0 =>
            ~(wPc = "fastfailed" /\ wErr = NoAPIKeyFieldError(id))

(***************************************************************************)
(* C13: fast setup chooses the model without a prompt: the provider it     *)
(* has just added carries the definition's default model when there is     *)
(* one, else a model of the built-in catalog when that is not empty, else  *)
(* the empty id.                                                           *)
(***************************************************************************)
C13_FastSetupModelChoice ==
    (wPc = "fastadded" /\ wPlaced.by = "FastSetup") =>
        LET def     == Catalog[wPlaced.id]
            modelID == cmConfig.Providers[wPlaced.id].ModelID
        IN  IF def.DefaultModelID # "" THEN modelID = def.DefaultModelID
            ELSE IF DOMAIN def.Models # {} THEN modelID \in DOMAIN def.Models
            ELSE modelID = ""

(***************************************************************************)
(* C14: ConfigManager.Validate, applied to the configuration the wizard    *)
(* holds at its menu, returns nil exactly when the default provider, if    *)
(* set, is configured and every provider entry has a non-empty name, a     *)
(* non-empty model id and, only if MapFieldToConfig sends one of the       *)
(* provider's required fields to the apiKey slot, a non-empty api key.     *)
(***************************************************************************)
RoutesToApiKey(fieldName) ==
    MapFieldToConfig(fieldName, "v", NewProviderConfig("", "")).APIKey = "v"

NeedsApiKey(id) ==
    \E i \in 1..Len(Catalog[id].RequiredFields) :
        RoutesToApiKey(Catalog[id].RequiredFields[i])

EntryAcceptable(id, provider) ==
    /\ provider.ID = id
    /\ provider.Name # ""
    /\ provider.ModelID # ""
    /\ (id \in CatalogIds /\ NeedsApiKey(id)) => provider.APIKey # ""

C14_ValidateKeyOnlyWhenRouted ==
    wPc = "menu" =>
        (ValidateErrors(cmConfig) = {}
            <=> /\ DefaultIsConfigured(cmConfig)
                /\ \A id \in DOMAIN cmConfig.Providers :
                       EntryAcceptable(id, cmConfig.Providers[id]))

(***************************************************************************)
(* C15: when RotateEncryptionKey returns nil, the key file holds the key   *)
(* the rotation generated, there is no backup key file, every api_key of   *)
(* the configuration file is a ciphertext under the key of the key file,   *)
(* and a load of the file with that key gives the configuration, api keys  *)
(* in plain text, that the rotation loaded before it touched the key.      *)
(***************************************************************************)
SealedUnder(key, encryptedKey) ==
    \E n \in NonceIds, v \in NonEmptyValues :
        encryptedKey = EncryptAPIKey(key, n, TRUE, v).val

DecryptsFile(key, file) ==
    \A i \in 1..Len(file.content) : DecryptAPIKey(key, file.content[i].api_key).err = ""

C16_RotationNeverStrands ==
    /\ rPc = "failed" =>
          keyFile \in Keys /\ DecryptsFile(keyFile, disk)
    /\ (rPc = "crashed" /\ backupFile # 0) =>
          DecryptsFile(backupFile, disk)

(***************************************************************************)
(* C17: the configuration file is written only by Save: a step changes     *)
(* the file only while a Save that saveAndExit or FastSetup called is      *)
(* writing it; the wizard's Load, its add, remove and set-default actions, *)
(* Validate, and leaving the menu without saving leave the file as it is.  *)
(***************************************************************************)
C17_OnlySaveWrites ==
    [][/\ disk' # disk =>
             /\ savePc = "writing" \/ savePc' = "writing"
             /\ wPc' \in {"wizsave", "fastsave"}
       /\ (wPc = "menu" /\ wPc' # "wizsave") => disk' = disk
       /\ (wPc = "none" /\ wPc' = "menu") => disk' = disk]_vars

C17_Witness ==
    /\ wPc = "menu"
    /\ disk.exists
    /\ lastOp.op \in {"AddProvider", "RemoveProvider", "SetDefaultProvider"}
    /\ lastOp.err = ""
    /\ LoadFile(encKey, disk).err = ""
    /\ LoadFile(encKey, disk).val # cmConfig

(***************************************************************************)
(* C18: unknown-id rejection: every registry lookup made for an id that    *)
(* is not a catalog provider (GetProviderDefinition, GetRequiredFields,    *)
(* GetOptionalFields, GetProviderModels, GetDefaultModel,                  *)
(* GetModelsByCapability, ValidateProviderConfig) has returned an error.   *)
(***************************************************************************)
C18_UnknownIdRejected ==
    (gPc = "returned" /\ gId \notin CatalogIds) => gRet.err # ""

C18_Witness ==
    /\ gPc = "returned"
    /\ gId = "nosuch"
    /\ gOp = "GetModelsByCapability"
    /\ gRet.err = "provider nosuch not found"

(***************************************************************************)
(* C19: MapFieldToConfig writes the value into exactly one slot, chosen    *)
(* by the field name, and leaves every other slot as it was: the listed    *)
(* api key names write apiKey, the listed base url names write baseUrl,    *)
(* the aws and vertex names write their snake-case extraConfig key and     *)
(* any other name writes extraConfig[name]; the other extraConfig          *)
(* entries, apiKey, baseUrl, id, name and modelId are preserved.           *)
(***************************************************************************)
SnakeCaseKey ==
    [awsAccessKey |-> "aws_access_key", awsSecretKey |-> "aws_secret_key",
     awsSessionToken |-> "aws_session_token", awsRegion |-> "aws_region",
     vertexProjectId |-> "vertex_project_id", vertexRegion |-> "vertex_region"]

ExtraKeyFor(fieldName) ==
    IF fieldName \in DOMAIN SnakeCaseKey THEN SnakeCaseKey[fieldName] ELSE fieldName

WritesOnlyExtra(before, after, key, value) ==
    /\ DOMAIN after.ExtraConfig = DOMAIN before.ExtraConfig \cup {key}
    /\ after.ExtraConfig[key] = value
    /\ \A k \in DOMAIN before.ExtraConfig \ {key} :
          after.ExtraConfig[k] = before.ExtraConfig[k]
    /\ after.APIKey = before.APIKey
    /\ after.BaseURL = before.BaseURL

C19_MapperWritesOneSlot ==
    [][(mPc = "start" /\ mPc' = "mapped") =>
          /\ mConfig'.ID = mConfig.ID
          /\ mConfig'.Name = mConfig.Name
          /\ mConfig'.ModelID = mConfig.ModelID
          /\ IF mField[1] \in {"apiKey"} \cup ProviderApiKeyFields
             THEN /\ mConfig'.APIKey = mValue
                  /\ mConfig'.BaseURL = mConfig.BaseURL
                  /\ mConfig'.ExtraConfig = mConfig.ExtraConfig
             ELSE IF mField[1] \in MapperBaseUrlFields
             THEN /\ mConfig'.BaseURL = mValue
                  /\ mConfig'.APIKey = mConfig.APIKey
                  /\ mConfig'.ExtraConfig = mConfig.ExtraConfig
             ELSE WritesOnlyExtra(mConfig, mConfig', ExtraKeyFor(mField[1]), mValue)]_vars

C19_Witness ==
    /\ mPc = "mapped"
    /\ mField = <<"awsRegion">>
    /\ mValue # ""
    /\ mConfig.APIKey = "x"
    /\ mConfig.BaseURL = "x"
    /\ DOMAIN mConfig.ExtraConfig = {"aws_access_key", "aws_region"}
    /\ mConfig.ExtraConfig["aws_access_key"] = "x"
    /\ mConfig.ExtraConfig["aws_region"] = mValue

(***************************************************************************)
(* C20: the mapper routes by name pattern: after MapFieldToConfig for a    *)
(* field whose name ends in ApiKey or apiKey the value is in the apiKey    *)
(* slot, and for a field whose name ends in BaseUrl it is in the baseUrl   *)
(* slot, also for names the routing table does not list.                   *)
(***************************************************************************)
\* the field names of the model that end in ApiKey or apiKey, and in BaseUrl
ApiKeyPatternNames == {"apiKey", "azureApiKey"} \cup ProviderApiKeyFields

BaseUrlPatternNames == {"customBaseUrl"} \cup MapperBaseUrlFields

C20_MapperRoutesByPattern ==
    mPc = "mapped" =>
        /\ mField[1] \in ApiKeyPatternNames => mConfig.APIKey = mValue
        /\ mField[1] \in BaseUrlPatternNames => mConfig.BaseURL = mValue

(***************************************************************************)
(* C21: ValidateRequiredFields reports the first missing field in          *)
(* declaration order: its error names the first field of the list whose    *)
(* destination slot (the slot MapFieldToConfig writes for the name) is     *)
(* absent or empty in the ProviderConfig, and it returns no error exactly  *)
(* when the slot of every field of the list is non-empty.                  *)
(***************************************************************************)
MissingSlots(fields, pc) ==
    {i \in 1..Len(fields) : SlotValue(fields[i], pc) = ""}

C21_FirstMissingField ==
    mPc \in {"validated", "mapped_validated"} =>
        LET missing == MissingSlots(mField, mConfig)
        IN  IF missing = {} THEN mErr = ""
            ELSE mErr = MissingFieldError(
                            mField[CHOOSE i \in missing : \A j \in missing : i <= j])

(***************************************************************************)
(* C22: the wizard's test action reports a configured provider as failing  *)
(* exactly when ValidateRequiredFields reports a missing required slot     *)
(* for its definition, and changes neither the configuration in memory     *)
(* nor the file.                                                           *)
(***************************************************************************)
C22_TestUsesRequiredFieldValidator ==
    tPc = "tested" =>
        \A id \in DOMAIN cmConfig.Providers :
            (tReport[id] # "") <=>
                (ValidateRequiredFields(id, cmConfig.Providers[id],
                                        Catalog[id].RequiredFields) # "")

(***************************************************************************)
(* C23: the wizard and fast setup store every collected field through      *)
(* MapFieldToConfig: a value entered for an optional field is in the slot  *)
(* the mapper chooses for the field name, so a configured provider has an  *)
(* extraConfig entry under the name of one of its optional fields only if  *)
(* that entry is the mapper's slot for the name.                           *)
(***************************************************************************)
MapperWritesExtraKey(fieldName, key) ==
    key \in DOMAIN MapFieldToConfig(fieldName, Probe, NewProviderConfig("", "")).ExtraConfig

C23_OptionalFieldsThroughMapper ==
    \A id \in DOMAIN cmConfig.Providers \cap CatalogIds :
        \A i \in 1..Len(Catalog[id].OptionalFields) :
            LET fieldName == Catalog[id].OptionalFields[i]
            IN  fieldName \in DOMAIN cmConfig.Providers[id].ExtraConfig =>
                    MapperWritesExtraKey(fieldName, fieldName)

\* Model ids that only a live fetch can offer
LiveOnlyModelIds(id) == UNION LiveModelSets \ DOMAIN Catalog[id].Models

ModelNotFoundError(modelID, id) ==
    "configuration validation failed: model " \o modelID \o " not found for provider " \o id

\* C24: for a provider with hasDynamicModels, a model selected from the
\* live-fetched list that is absent from the built-in catalog passes provider
\* validation, so no wizard add fails on it with "model ... not found".
C24_LiveModelAccepted ==
    wPc = "addfailed" =>
        \A id \in CatalogIds :
            Catalog[id].HasDynamicModels =>
                \A m \in LiveOnlyModelIds(id) : wErr # ModelNotFoundError(m, id)

IsNumber(s) == s # "" /\ \A i \in 1..Len(s) : Contains(DecimalDigits, Char(s, i))

RECURSIVE Concat(_)
Concat(pages) == IF pages = <<>> THEN <<>> ELSE Head(pages) \o Concat(Tail(pages))

\* the effect of one answer on the page index and on the selection, with
\* backWords the answers that ask for the previous page; the one-letter
\* answers "n" and "b" are not counted as invalid
PageStep(backWords) ==
    lPc' # "failed" =>
        LET selection == TrimSpace(lInput')
            last      == Len(lPages) - 1
            listed    == {lOptions[i].ModelID : i \in 1..Len(lOptions)}
        IN  /\ lPage \in 0..last /\ lPage' \in 0..last
            /\ selection = "next" =>
                   lPage' = IF lPage < last THEN lPage + 1 ELSE lPage
            /\ selection \in backWords =>
                   lPage' = IF lPage > 0 THEN lPage - 1 ELSE lPage
            /\ (/\ ToLower(selection) \notin {"next", "n", "b"} \cup backWords
                /\ ~IsNumber(selection)
                /\ selection \notin listed) => lPage' = lPage
            /\ (IsNumber(selection) /\ ParseDecimal(selection) \in 1..Len(lOptions)) =>
                   /\ lPc' = "selected"
                   /\ lSel' = lOptions[ParseDecimal(selection)].ModelID
                   /\ lOptions[ParseDecimal(selection)].Number = ParseDecimal(selection)
            /\ \A i \in 1..Len(lPages) : Len(lPages[i]) \in 1..pageSize
            /\ Concat(lPages) = lOptions

\* C25: the page index stays within [0, pages - 1]; "next" moves forward by
\* one page unless on the last page; "back", "prev" and "previous" each move
\* back by one page unless on the first page; an invalid answer leaves the
\* page unchanged; a number selects the model with that display number;
\* pages hold at most 15 models and concatenated equal the sorted list.
C25_Pagination == [][PageStep({"back", "prev", "previous"})]_vars

ListedIds == {lOptions[i].ModelID : i \in 1..Len(lOptions)}

\* C26: answering with the exact model id of a listed model selects that
\* model, whatever the id (ids that begin with digits included); answering
\* with a display number selects the model of that number; the selected model
\* is always one of the list.
C26_SelectByIdOrNumber ==
    [][lPc' # "failed" =>
          LET selection == TrimSpace(lInput')
          IN  /\ selection \in ListedIds =>
                     lPc' = "selected" /\ lSel' = selection
              /\ (IsNumber(selection) /\ ParseDecimal(selection) \in 1..Len(lOptions)) =>
                     lPc' = "selected" /\ lSel' = lOptions[ParseDecimal(selection)].ModelID
              /\ lPc' = "selected" => lSel' \in ListedIds]_vars

\* C27: a FastSetup that ends with an error has added and saved nothing; a
\* wizard add that fails adds no provider and leaves the in-memory
\* configuration as it was, and the wizard goes on with the next menu turn.
C27_FailedAddIsHarmless ==
    [][/\ wPc' = "fastfailed" => UNCHANGED <<cmConfig, disk, wOps, wPlaced>>
       /\ wPc' = "addfailed" => wPc = "menu" /\ UNCHANGED <<cmOrigin, cmConfig, disk, wOps, wPlaced>>
       /\ wPc = "addfailed" => wPc' = "menu" /\ UNCHANGED <<cmOrigin, cmConfig, disk>>]_vars

\* a wizard add has failed on an empty required value after an earlier add
\* succeeded, and the earlier provider is still configured
C27_Witness ==
    /\ wPc = "addfailed"
    /\ wErr = "field is required"
    /\ wPlaced.by = "add"
    /\ wPlaced.id \in DOMAIN cmConfig.Providers

\* C28: when RotateEncryptionKey has returned, with nil or with an error, the
\* encryptor held by the ConfigManager uses the key of the key file, so what a
\* later Save of that manager writes can be loaded with the key file.
C28_EncryptorMatchesKeyFile ==
    rPc \in {"done", "failed"} => encKey = keyFile

\* C29: in every interleaving of the deadline and the fetcher,
\* fetchWithContext returns, once, with the fetcher's result or the timeout
\* error, and the goroutine running the fetcher can always send its result and
\* finishes, also when the caller has returned on timeout and nobody receives.
C29_FetchReturnsOnce ==
    /\ [](fGo = "running" => CanSend)
    /\ [][fPc = "returned" => (fPc' = "returned" /\ UNCHANGED <<fSeen, fRet>>)]_vars
    /\ []((fPc = "returned" /\ fGo # "none") =>
              fSeen \in FetcherResults \cup {[models |-> NoConfigModels, err |-> TimeoutError]})
    /\ (fPc = "select" ~> fPc = "returned")
    /\ (fGo = "running" ~> fGo = "done")

\* the caller has returned the timeout error and the goroutine has since
\* delivered its result to the channel nobody receives from
C29_Witness ==
    /\ fPc = "returned"
    /\ fSeen.err = TimeoutError
    /\ fGo = "done"
    /\ fChan # <<>>

\* the step on which saveAndExit returns nil: after its Save returned nil,
\* or from the menu with "Nothing to save"
SaveAndExitReturnsNil ==
    \/ wPc = "wizsave" /\ wPc' = "none" /\ lastOp.err = ""
    \/ wPc = "menu" /\ wPc' = "none" /\ lastOp' = [op |-> "saveAndExit", err |-> ""]

\* what the configuration file holds: what a Load with the key gives
FileConfig(key, file) ==
    IF ~file.exists THEN [val |-> createDefaultConfig, err |-> ""] ELSE LoadFile(key, file)

\* C30: when the wizard's "Save configuration and exit" returns without
\* error, the configuration file holds exactly the providers and the default
\* provider of the in-memory configuration of that moment, also when every
\* provider saved earlier has been removed during the session.
C30_SaveAndExitWritesMemory ==
    [][SaveAndExitReturnsNil =>
          /\ FileConfig(encKey, disk').err = ""
          /\ FileConfig(encKey, disk').val.Providers = cmConfig.Providers
          /\ FileConfig(encKey, disk').val.DefaultProvider = cmConfig.DefaultProvider]_vars


====
